---- MODULE Spec2Model ----
(***************************************************************************)
(* Model of the NPO Radio 2 Top 2000 integration (custom_components/       *)
(* npo_top2000): the metadata client with its three-stage fallback and     *)
(* 30-second cache, the fuzzy matcher, and the polling coordinator with    *)
(* the side effects it runs when the song changes.                         *)
(***************************************************************************)
EXTENDS Integers, Sequences, FiniteSets, TLC

(***************************************************************************)
(* Strings are sequences of one-character strings, so that lower(),        *)
(* substring tests and edit similarity can be computed.                    *)
(***************************************************************************)
UpperChars == <<"A","B","C","D","E","F","G","H","I","J","K","L","M",
                "N","O","P","Q","R","S","T","U","V","W","X","Y","Z">>

LowerChars == <<"a","b","c","d","e","f","g","h","i","j","k","l","m",
                "n","o","p","q","r","s","t","u","v","w","x","y","z">>

\* str.lower() on one character
LowerChar(c) ==
    IF \E i \in DOMAIN UpperChars : UpperChars[i] = c
    THEN LowerChars[CHOOSE i \in DOMAIN UpperChars : UpperChars[i] = c]
    ELSE c

\* mutant: the strings are compared as they are written
LowerIdentity(s) == s

\* str.lower()
RECURSIVE Lower(_)
Lower(s) == IF s = <<>> THEN <<>> ELSE <<LowerChar(Head(s))>> \o Lower(Tail(s))

\* s[a:b] of Python, 0-based half-open, as a 1-based sequence
Slice(s, a, b) == [i \in 1..(b - a) |-> s[a + i]]

\* Python's "p in s" on strings
Contains(s, p) ==
    \E a \in 0..(Len(s) - Len(p)) : Slice(s, a, a + Len(p)) = p

Max2(a, b) == IF a >= b THEN a ELSE b

\* one row of the table of common-subsequence lengths: cur[j] is the
\* length for the prefix of a that ends with c and the first j of b
RECURSIVE LcsRow(_, _, _, _)
LcsRow(above, c, b, cur) ==
    IF Len(cur) = Len(b) THEN cur
    ELSE LET j == Len(cur) + 1
             diag == IF j = 1 THEN 0 ELSE above[j - 1]
             left == IF j = 1 THEN 0 ELSE cur[j - 1]
         IN LcsRow(above, c, b,
                   Append(cur, IF c = b[j] THEN diag + 1 ELSE Max2(above[j], left)))

RECURSIVE LcsRows(_, _, _, _)
LcsRows(a, b, i, above) ==
    IF i > Len(a) THEN above
    ELSE LcsRows(a, b, i + 1, LcsRow(above, a[i], b, <<>>))

\* length of the longest common subsequence (Indel similarity of rapidfuzz)
LCS(a, b) ==
    IF Len(a) = 0 \/ Len(b) = 0 THEN 0
    ELSE LcsRows(a, b, 1, [j \in 1..Len(b) |-> 0])[Len(b)]

(***************************************************************************)
(* Scores are exact fractions <<n, d>> (n/d, d > 0): rapidfuzz returns     *)
(* floats, and the code halves their sum and compares with the threshold.  *)
(***************************************************************************)
FracLess(x, y) == x[1] * y[2] < y[1] * x[2]
FracLeq(x, y) == x[1] * y[2] <= y[1] * x[2]
FracEq(x, y) == x[1] * y[2] = y[1] * x[2]
FracMax(x, y) == IF FracLess(x, y) THEN y ELSE x

\* fuzz.ratio: 100 * 2 * LCS / (len1 + len2)
Ratio(a, b) ==
    IF Len(a) + Len(b) = 0 THEN <<100, 1>>
    ELSE <<200 * LCS(a, b), Len(a) + Len(b)>>

\* the windows of the longer string that partial_ratio aligns the shorter with
Windows(m, long) ==
    {Slice(long, 0, i) : i \in 1..(m - 1)}
    \cup {Slice(long, i, i + m) : i \in 0..(Len(long) - m)}
    \cup {Slice(long, i, Len(long)) : i \in (Len(long) - m + 1)..(Len(long) - 1)}

RECURSIVE FracMaxOf(_)
FracMaxOf(S) ==
    IF S = {} THEN <<0, 1>>
    ELSE LET x == CHOOSE y \in S : TRUE
         IN FracMax(x, FracMaxOf(S \ {x}))

PartialRatioImpl(short, long) ==
    FracMaxOf({Ratio(short, w) : w \in Windows(Len(short), long)})

\* rapidfuzz.fuzz.partial_ratio
partial_ratio(s1, s2) ==
    IF Len(s1) = 0 /\ Len(s2) = 0 THEN <<100, 1>>
    ELSE IF Len(s1) = 0 \/ Len(s2) = 0 THEN <<0, 1>>
    ELSE IF Len(s1) < Len(s2) THEN PartialRatioImpl(s1, s2)
    ELSE IF Len(s2) < Len(s1) THEN PartialRatioImpl(s2, s1)
    ELSE FracMax(PartialRatioImpl(s1, s2), PartialRatioImpl(s2, s1))

FUZZY_MATCH_THRESHOLD == 85

\* combined_score = (artist_score + title_score) / 2
CombinedScore(artist, title, song) ==
    LET a == partial_ratio(Lower(artist), Lower(song.artist))
        t == partial_ratio(Lower(title), Lower(song.title))
    IN <<a[1] * t[2] + t[1] * a[2], 2 * a[2] * t[2]>>

\* mutant: a score equal to the threshold is rejected
ReplacesAboveOnly(combined, best_score) ==
    FracLess(best_score, combined) /\ FracLess(<<FUZZY_MATCH_THRESHOLD, 1>>, combined)

\* mutant: a candidate of equal score replaces the earlier one
ReplacesOnTie(combined, best_score) ==
    FracLeq(best_score, combined) /\ FracLeq(<<FUZZY_MATCH_THRESHOLD, 1>>, combined)

\* mutant: every candidate at or above the threshold replaces the best
ReplacesAnyAccepted(combined, best_score) ==
    FracLeq(<<FUZZY_MATCH_THRESHOLD, 1>>, combined)

\* the replacement test of the scan: strictly better and at least the threshold
Replaces(combined, best_score) ==
    FracLess(best_score, combined) /\ FracLeq(<<FUZZY_MATCH_THRESHOLD, 1>>, combined)

\* mutant: the scan stops at the first candidate it accepts
RECURSIVE ScanSongsFirstAccepted(_, _, _, _)
ScanSongsFirstAccepted(rows, artist, title, best) ==
    IF rows = <<>> \/ best.id # 0 THEN best
    ELSE LET song == Head(rows)
             combined == CombinedScore(artist, title, song)
         IN ScanSongsFirstAccepted(Tail(rows), artist, title,
                                   IF Replaces(combined, best.score)
                                   THEN [id |-> song.id, score |-> combined]
                                   ELSE best)

\* the scan over the rows in the order the query returns them;
\* best is [id, score], id 0 for "no best_match yet"
RECURSIVE ScanSongs(_, _, _, _)
ScanSongs(rows, artist, title, best) ==
    IF rows = <<>> THEN best
    ELSE LET song == Head(rows)
             combined == CombinedScore(artist, title, song)
         IN ScanSongs(Tail(rows), artist, title,
                      IF Replaces(combined, best.score)
                      THEN [id |-> song.id, score |-> combined]
                      ELSE best)

\* DatabaseManager.match_song: the id of the matched song, 0 for None
match_song(rows, artist, title) ==
    ScanSongs(rows, artist, title, [id |-> 0, score |-> <<0, 1>>]).id

\* best_score when the scan of match_song has ended
best_score(rows, artist, title) ==
    ScanSongs(rows, artist, title, [id |-> 0, score |-> <<0, 1>>]).score

(***************************************************************************)
(* The catalog (table songs), in rowid order: the order in which           *)
(* "SELECT ... FROM songs" enumerates it.  The pipeline never changes      *)
(* id, position, artist or title.                                          *)
(***************************************************************************)
Songs ==
    << [id |-> 1, position |-> 3, artist |-> <<"Q","u">>, title |-> <<"B","o">>],
       [id |-> 2, position |-> 2, artist |-> <<"A","b">>, title |-> <<"D","q">>],
       [id |-> 3, position |-> 1, artist |-> <<"Q","u">>, title |-> <<"W","e">>] >>

SongIds == {Songs[i].id : i \in DOMAIN Songs}

SongById(id) == Songs[CHOOSE i \in DOMAIN Songs : Songs[i].id = id]

\* Optional values: <<>> is None, <<v>> is the value v
None == <<>>
Some(v) == <<v>>

(***************************************************************************)
(* What the upstream sources can answer.  cover_art_url is "" for None or  *)
(* a missing key (both falsy in the code), else a URL.                     *)
(***************************************************************************)
Obs(artist, title, url) == [artist |-> artist, title |-> title, cover_art_url |-> url]

NpoCoverUrl == "npo_url"
MusicBrainzUrl == "mb_url"
OldCoverUrl == "old_url"

\* the Icecast header and onlineradiobox carry artist and title only
PlainObservations ==
    { Obs(<<"q","u">>, <<"b","o","x">>, ""),
      Obs(<<"A","b">>, <<"D","q">>, ""),
      Obs(<<"Z","z">>, <<"Z","z">>, "") }

\* the NPO homepage may also carry an image URL
WebsiteObservations ==
    PlainObservations \cup { Obs(<<"q","u">>, <<"b","o","x">>, NpoCoverUrl) }

\* how a stage can fail: the first three raise inside the stage and are
\* caught by get_current_metadata, the last two make the stage return None
StageFailures == {"network_error", "http_status", "timeout", "no_structure", "parse_error"}

\* what get_current_metadata sees of a stage
Seen(kind) ==
    IF kind \in {"network_error", "http_status", "timeout"} THEN "raised"
    ELSE IF kind \in {"no_structure", "parse_error"} THEN "none"
    ELSE "observation"

\* match_song on every observation the sources can produce
MatchTable ==
    [o \in WebsiteObservations |-> match_song(Songs, o.artist, o.title)]

(***************************************************************************)
(* Stored settings and rules.  The JSON text columns are kept with their   *)
(* parse status: NULL, valid JSON of a list, or text json.loads rejects.   *)
(***************************************************************************)
NullText == [kind |-> "null", val |-> <<>>]
JsonText(v) == [kind |-> "json", val |-> v]
BadText == [kind |-> "bad", val |-> <<>>]

DefaultSettings ==
    [notification_targets |-> <<"persistent_notification">>,
     notify_current_song |-> TRUE,
     notify_upcoming_song |-> FALSE,
     upcoming_notify_positions |-> <<1, 2, 3>>]

\* "json.loads(col) if col else default": NULL takes the default
LoadsOr(col, default) == IF col.kind = "null" THEN default ELSE col.val

\* json.loads raises on text that is not JSON
SettingsRaise(row) ==
    /\ row # None
    /\ \/ row[1].notification_targets.kind = "bad"
       \/ row[1].upcoming_notify_positions.kind = "bad"

\* DatabaseManager.get_notification_settings, row the optional stored row
get_notification_settings(row) ==
    IF row = None THEN DefaultSettings
    ELSE [notification_targets |->
              LoadsOr(row[1].notification_targets, <<"persistent_notification">>),
          notify_current_song |-> row[1].notify_current_song,
          notify_upcoming_song |-> row[1].notify_upcoming_song,
          upcoming_notify_positions |->
              LoadsOr(row[1].upcoming_notify_positions, <<1, 2, 3>>)]

\* mutant: the rules are loaded without "WHERE enabled = 1"
get_notification_rules_all(rules) == rules

\* DatabaseManager.get_notification_rules(enabled_only=True)
get_notification_rules(rules) == SelectSeq(rules, LAMBDA r : r.enabled)

\* the loop of _matches_notification_rules over the enabled rules
RECURSIVE RuleLoop(_, _, _)
RuleLoop(rules, artist, title) ==
    IF rules = <<>> THEN FALSE
    ELSE LET rule == Head(rules)
             pattern == Lower(rule.match_pattern)
         IN IF rule.rule_type = "artist" /\ Contains(artist, pattern) THEN TRUE
            ELSE IF rule.rule_type = "title" /\ Contains(title, pattern) THEN TRUE
            ELSE RuleLoop(Tail(rules), artist, title)

\* Top2000DataUpdateCoordinator._matches_notification_rules
matches_notification_rules(song, stored_rules) ==
    LET rules == get_notification_rules(stored_rules)
    IN IF rules = <<>> THEN FALSE
       ELSE RuleLoop(rules, Lower(song.artist), Lower(song.title))

(***************************************************************************)
(* State.                                                                  *)
(***************************************************************************)
VARIABLES
    now,                    \* datetime.now(), in seconds since start-up
    _cached_metadata,        \* NPOClient._cached_metadata (optional observation)
    _last_fetch,             \* NPOClient._last_fetch (optional time)
    _last_song_id,           \* coordinator._last_song_id, 0 for None
    data,                   \* coordinator.data, what the sensors read
    last_update_success,    \* coordinator.last_update_success
    pc,                     \* where the running tick stands, "idle" between ticks
    npo_metadata,           \* the tick's npo_metadata (optional observation)
    song_match,             \* the tick's song_match, as the song id, 0 for None
    song_changed,           \* the tick's song_changed
    result,                 \* what _async_update_data returns or raises
    cover,                  \* table songs by id: the catalog columns and the
                            \* cover-art columns of each row
    playlist_state,         \* table playlist_state: the optional row id = 1
    notification_settings,  \* table notification_settings: the optional row id = 1
    notification_rules,     \* table notification_rules, in rowid order
    position_history,       \* table position_history: rows song_id, year, position
    contacted,              \* the stages contacted by the tick's fetch, with outcome
    fx,                     \* the side effects of the running tick, in order
    prev,                   \* tracked id and playlist_state row when the tick began
    call,                   \* a database function called on its own: name and arguments
    ret,                    \* what that call returned
    _upcoming_songs,        \* UpcomingSongsSensor._upcoming_songs, as song ids
    refresh_tasks           \* the tasks running _async_update_upcoming

clientVars == <<_cached_metadata, _last_fetch>>
coordVars == <<_last_song_id, data, last_update_success>>
tickVars == <<pc, npo_metadata, song_match, song_changed, result>>
dbVars == <<cover, playlist_state, notification_settings, notification_rules,
           position_history>>
histVars == <<contacted, fx, prev>>
funVars == <<call, ret>>
sensorVars == <<_upcoming_songs, refresh_tasks>>
vars == <<now, clientVars, coordVars, tickVars, dbVars, histVars, funVars, sensorVars>>

\* bounds of the model
MaxNow == 60
TimeSteps == {30}

\* program constants
_cache_duration == 30
CACHE_DURATION_HOURS == 24
CacheSeconds == CACHE_DURATION_HOURS * 3600

NoData == [valid |-> FALSE, current_song |-> 0, song_changed |-> FALSE, error |-> ""]
NoResult == [kind |-> "none", current_song |-> 0, song_changed |-> FALSE, error |-> ""]
NoPrev == [id |-> 0, state |-> None]

UpdateFailed(step) ==
    [kind |-> "failed", current_song |-> 0, song_changed |-> FALSE, error |-> step]

\* mutant: NotFound and NoMatch raise instead of returning
SoftAsFailure(error) == UpdateFailed(error)

\* the three return statements and the raise of _async_update_data
SoftResult(error) ==
    [kind |-> "soft", current_song |-> 0, song_changed |-> FALSE, error |-> error]
OkResult(song_id, changed) ==
    [kind |-> "ok", current_song |-> song_id, song_changed |-> changed, error |-> ""]

NoCover == [cover_art_url |-> "", cover_art_cached_at |-> None, musicbrainz_id |-> ""]

\* the year column of a songs row (the importer takes it from the track)
ReleaseYear(id) == 1970 + id

\* the row of table songs with this id: the catalog columns set-up has
\* imported and the cover-art columns c
SongRow(id, c) ==
    [position |-> SongById(id).position,
     artist |-> SongById(id).artist,
     title |-> SongById(id).title,
     year |-> ReleaseYear(id),
     cover_art_url |-> c.cover_art_url,
     cover_art_cached_at |-> c.cover_art_cached_at,
     musicbrainz_id |-> c.musicbrainz_id]

\* table position_history after set-up: the importer adds a row of the
\* newest edition for every song it creates, and rows of earlier editions
InitialHistory ==
    { [song_id |-> id, year |-> 2025, position |-> SongById(id).position] : id \in SongIds }
    \cup { [song_id |-> 1, year |-> 2024, position |-> 2] }

\* the cover-art fields a pre-populated or earlier used database can hold
InitialCovers ==
    { [id \in SongIds |-> SongRow(id, NoCover)],
      [id \in SongIds |->
          IF id = 2
          THEN SongRow(id, [cover_art_url |-> OldCoverUrl,
                            cover_art_cached_at |-> Some(0 - CacheSeconds),
                            musicbrainz_id |-> "mbid"])
          ELSE SongRow(id, NoCover)] }

AllTargets == {"persistent_notification", "notify.phone"}

\* the sets of targets whose service call raises in one dispatch
FailingSets == {{}, {"persistent_notification"}}

InitialSettings ==
    { None,
      Some([notification_targets |-> JsonText(<<"persistent_notification", "notify.phone">>),
            notify_current_song |-> TRUE,
            notify_upcoming_song |-> TRUE,
            upcoming_notify_positions |-> JsonText(<<1, 2>>)]) }

InitialRules ==
    { << [rule_type |-> "artist", match_pattern |-> <<"Q","U">>, enabled |-> TRUE],
         [rule_type |-> "title", match_pattern |-> <<"d","q">>, enabled |-> FALSE] >> }

NoCall == [op |-> "none"]
NoRet == [done |-> FALSE, val |-> <<>>]

\* the integration after set-up, before the first tick
CoordInit ==
    /\ now = 0
    /\ _cached_metadata = None
    /\ _last_fetch = None
    /\ _last_song_id = 0
    /\ data = NoData
    /\ last_update_success = TRUE
    /\ pc = "idle"
    /\ npo_metadata = None
    /\ song_match = 0
    /\ song_changed = FALSE
    /\ result = NoResult
    /\ playlist_state = None
    /\ position_history = InitialHistory
    /\ _upcoming_songs = <<>>
    /\ refresh_tasks = <<>>
    /\ contacted = <<>>
    /\ fx = <<>>
    /\ prev = NoPrev

Init ==
    /\ CoordInit
    /\ cover \in InitialCovers
    /\ notification_settings \in InitialSettings
    /\ notification_rules \in InitialRules
    /\ call = NoCall
    /\ ret = NoRet

(***************************************************************************)
(* Time passes between ticks.                                              *)
(***************************************************************************)
AdvanceBy(steps) ==
    /\ pc = "idle"
    /\ \E d \in steps :
          /\ now + d <= MaxNow
          /\ now' = now + d
    /\ UNCHANGED <<clientVars, coordVars, tickVars, dbVars, histVars, funVars, sensorVars>>

(***************************************************************************)
(* NPOClient.get_current_metadata                                          *)
(***************************************************************************)
\* mutant: an observation exactly 30 seconds old still counts as fresh
CacheFreshInclusive ==
    /\ _cached_metadata # None
    /\ _last_fetch # None
    /\ now - _last_fetch[1] <= _cache_duration

\* mutant: a cached observation never expires
CacheFreshNoExpiry ==
    /\ _cached_metadata # None
    /\ _last_fetch # None

\* the cache test at the head of get_current_metadata
CacheFresh ==
    /\ _cached_metadata # None
    /\ _last_fetch # None
    /\ now - _last_fetch[1] < _cache_duration

\* mutant: the Icecast stage is skipped
NextStageSkip(k) == IF k = 1 THEN 3 ELSE 0

\* mutant: the chain gives up after the second stage
NextStageShort(k) == IF k < 2 THEN k + 1 ELSE 0

\* the stage tried after stage k has failed, 0 when the chain is exhausted
NextStage(k) == IF k < 3 THEN k + 1 ELSE 0

StagePc(k) == CASE k = 1 -> "stage1" [] k = 2 -> "stage2" [] k = 3 -> "stage3"

\* mutant: the driver fires while the side effects of a tick are running
TickStartAnytime ==
    /\ pc \in {"idle", "playlist_state", "notify_current"}
    /\ prev' = [id |-> _last_song_id, state |-> playlist_state]
    /\ contacted' = <<>>
    /\ fx' = <<>>
    /\ song_match' = 0
    /\ song_changed' = FALSE
    /\ result' = NoResult
    /\ npo_metadata' = None
    /\ pc' = "stage1"
    /\ UNCHANGED <<funVars, sensorVars, now, clientVars, coordVars, dbVars>>

\* a tick begins: _async_update_data calls get_current_metadata, which
\* answers from the cache or goes to the first stage
TickStart ==
    /\ pc = "idle"
    /\ prev' = [id |-> _last_song_id, state |-> playlist_state]
    /\ contacted' = <<>>
    /\ fx' = <<>>
    /\ song_match' = 0
    /\ song_changed' = FALSE
    /\ result' = NoResult
    /\ IF CacheFresh
       THEN /\ npo_metadata' = _cached_metadata
            /\ pc' = "match"
       ELSE /\ npo_metadata' = None
            /\ pc' = StagePc(1)
    /\ UNCHANGED <<funVars, sensorVars, now, clientVars, coordVars, dbVars>>

\* what a stage gives get_current_metadata: an observation, or a failure
Answer(o) == [kind |-> "observation", obs |-> o]
Failure(f) == [kind |-> f, obs |-> Obs(<<>>, <<>>, "")]

\* stage k answers with outcome
Stage(k, outcome) ==
    /\ pc = StagePc(k)
    /\ contacted' = Append(contacted, [stage |-> k, outcome |-> Seen(outcome.kind)])
    /\ IF outcome.kind \in StageFailures
       THEN /\ UNCHANGED <<clientVars, npo_metadata>>
            /\ IF NextStage(k) # 0
               THEN /\ pc' = StagePc(NextStage(k))
                    /\ result' = result
               ELSE \* get_current_metadata returns None: "if not npo_metadata"
                    /\ pc' = "return"
                    /\ result' = SoftResult("No metadata available")
       ELSE /\ _cached_metadata' = Some(outcome.obs)      \* _cache_metadata
            /\ _last_fetch' = Some(now)
            /\ npo_metadata' = Some(outcome.obs)
            /\ pc' = "match"
            /\ result' = result
    /\ UNCHANGED <<funVars, sensorVars, now, coordVars, song_match, song_changed, dbVars, fx, prev>>

Stage1Outcomes ==
    {Answer(o) : o \in WebsiteObservations} \cup {Failure(f) : f \in StageFailures}

\* the Icecast and onlineradiobox stages have no parse step of their own
Stage23Outcomes ==
    {Answer(o) : o \in PlainObservations}
    \cup {Failure(f) : f \in StageFailures \ {"parse_error"}}

Stage1 == \E o \in Stage1Outcomes : Stage(1, o)
Stage2 == \E o \in Stage23Outcomes : Stage(2, o)
Stage3 == \E o \in Stage23Outcomes : Stage(3, o)

(***************************************************************************)
(* Top2000DataUpdateCoordinator._async_update_data, after the fetch.       *)
(* Every await of the body is in one try block: an exception raised by     *)
(* any step leaves through "except Exception" as UpdateFailed.             *)
(***************************************************************************)
Ev(op, song, target, cur, ok) ==
    [op |-> op, song |-> song, target |-> target, cur |-> cur, ok |-> ok]

\* the step of a transition begins
StepEv(op, song) == Ev(op, song, "", FALSE, TRUE)

\* mutant: every resolved song counts as a change
SongChangedAlways(song_id, last) == song_id = song_id

\* song_changed = song_id != self._last_song_id
SongChanged(song_id, last) == song_id # last

\* mutant: the tracked id is not updated on a change
TrackedAfterStale(song_id, last) == last

\* "if song_changed: ... self._last_song_id = song_id"
TrackedAfter(song_id, last) == IF SongChanged(song_id, last) THEN song_id ELSE last

\* mutant: the state write and the current-song notification swapped
NextStepSwapped(step) ==
    CASE step = "cover_art" -> "notify_current"
      [] step = "notify_current" -> "playlist_state"
      [] step = "playlist_state" -> "notify_upcoming"
      [] step = "notify_upcoming" -> "return"

\* the step that follows a side-effect step of a transition
NextStep(step) ==
    CASE step = "cover_art" -> "playlist_state"
      [] step = "playlist_state" -> "notify_current"
      [] step = "notify_current" -> "notify_upcoming"
      [] step = "notify_upcoming" -> "return"

\* what happens to an exception raised inside a side-effect step
StepRaised(step) == UpdateFailed(step)

\* match_song and the change test; match_error: match_song raised (the
\* database failed, or the source gave artist or title null)
Match(match_error) ==
    /\ pc = "match"
    /\ IF match_error
       THEN /\ result' = UpdateFailed("match")
            /\ pc' = "return"
            /\ UNCHANGED <<_last_song_id, song_match, song_changed>>
       ELSE LET song_id == MatchTable[npo_metadata[1]]
            IN IF song_id = 0
               THEN /\ result' = SoftResult("Not in Top 2000")
                    /\ pc' = "return"
                    /\ UNCHANGED <<_last_song_id, song_match, song_changed>>
               ELSE /\ song_match' = song_id
                    /\ song_changed' = SongChanged(song_id, _last_song_id)
                    /\ _last_song_id' = TrackedAfter(song_id, _last_song_id)
                    /\ IF SongChanged(song_id, _last_song_id)
                       THEN /\ pc' = "cover_art"
                            /\ result' = result
                       ELSE /\ pc' = "return"
                            /\ result' = OkResult(song_id, FALSE)
    /\ UNCHANGED <<funVars, sensorVars, now, clientVars, data, last_update_success, npo_metadata,
                   dbVars, histVars>>

\* DatabaseManager.is_cover_art_cached
is_cover_art_cached(row) ==
    IF row.cover_art_url = "" \/ row.cover_art_cached_at = None THEN FALSE
    ELSE now - row.cover_art_cached_at[1] < CacheSeconds

\* mutant: INSERT OR REPLACE of the row, the columns not given are lost
update_cover_art_replace(song_id, url, mbid) ==
    [cover EXCEPT ![song_id] = [position |-> 0, artist |-> <<>>, title |-> <<>>,
                                year |-> 0,
                                cover_art_url |-> url,
                                cover_art_cached_at |-> Some(now),
                                musicbrainz_id |-> mbid]]

\* DatabaseManager.update_cover_art: UPDATE songs SET the three cover-art
\* columns WHERE id = song_id
update_cover_art(song_id, url, mbid) ==
    [cover EXCEPT ![song_id].cover_art_url = url,
                  ![song_id].cover_art_cached_at = Some(now),
                  ![song_id].musicbrainz_id = mbid]

\* CoverArtClient.get_cover_art raises before its try block when it is
\* given a cached URL and a cached timestamp: the timestamp read from the
\* songs row is text, and "datetime.now() - cached_at" is a TypeError
GetCoverArtRaises(row) ==
    row.cover_art_url # "" /\ row.cover_art_cached_at # None

\* step 3, _fetch_and_cache_cover_art.  db_error: the first database call
\* of the step raises; lookup: the URL MusicBrainz finds, "" for none
CoverArt(db_error, lookup) ==
    /\ pc = "cover_art"
    /\ LET npo_cover_url == npo_metadata[1].cover_art_url
           row == cover[song_match]
           begun == Append(fx, StepEv("cover_art", song_match))
       IN IF db_error
          THEN /\ fx' = begun
               /\ cover' = cover
               /\ result' = StepRaised("cover_art")
               /\ pc' = "return"
          ELSE IF npo_cover_url # ""
          THEN /\ cover' = update_cover_art(song_match, npo_cover_url, "")
               /\ fx' = Append(begun, Ev("cover_write", song_match, "", FALSE, TRUE))
               /\ result' = result
               /\ pc' = NextStep("cover_art")
          ELSE IF is_cover_art_cached(row)
          THEN /\ cover' = cover
               /\ fx' = begun
               /\ result' = result
               /\ pc' = NextStep("cover_art")
          ELSE IF GetCoverArtRaises(row)
          THEN /\ cover' = cover
               /\ fx' = begun
               /\ result' = StepRaised("cover_art")
               /\ pc' = "return"
          ELSE IF lookup # ""
          THEN /\ cover' = update_cover_art(song_match, lookup, "mbid")
               /\ fx' = begun \o << Ev("cover_lookup", song_match, "", FALSE, TRUE),
                                    Ev("cover_write", song_match, "", FALSE, TRUE) >>
               /\ result' = result
               /\ pc' = NextStep("cover_art")
          ELSE /\ cover' = cover
               /\ fx' = Append(begun, Ev("cover_lookup", song_match, "", FALSE, TRUE))
               /\ result' = result
               /\ pc' = NextStep("cover_art")
    /\ UNCHANGED <<funVars, sensorVars, now, clientVars, coordVars, npo_metadata, song_match, song_changed,
                   playlist_state, notification_settings, notification_rules,
                   position_history, contacted, prev>>

\* mutant: a plain INSERT, the rows before it stay
update_playlist_state_insert(position, song_id, metadata) ==
    Append(playlist_state,
           [current_position |-> position,
            current_song_id |-> song_id,
            detected_at |-> now,
            npo_metadata |-> metadata])

\* DatabaseManager.update_playlist_state: INSERT OR REPLACE of the row id = 1
update_playlist_state(position, song_id, metadata) ==
    Some([current_position |-> position,
          current_song_id |-> song_id,
          detected_at |-> now,
          npo_metadata |-> metadata])

\* step 4
PlaylistState(db_error) ==
    /\ pc = "playlist_state"
    /\ IF db_error
       THEN /\ fx' = Append(fx, StepEv("playlist_state", song_match))
            /\ playlist_state' = playlist_state
            /\ result' = StepRaised("playlist_state")
            /\ pc' = "return"
       ELSE /\ playlist_state' = update_playlist_state(SongById(song_match).position,
                                                       song_match, npo_metadata[1])
            /\ fx' = fx \o << StepEv("playlist_state", song_match),
                              Ev("state_write", song_match, "", FALSE, TRUE) >>
            /\ result' = result
            /\ pc' = NextStep("playlist_state")
    /\ UNCHANGED <<funVars, sensorVars, now, clientVars, coordVars, npo_metadata, song_match, song_changed,
                   cover, notification_settings, notification_rules, position_history,
                   contacted, prev>>

\* mutant: the first send that raises ends the loop
RECURSIVE SendLoopStops(_, _, _, _)
SendLoopStops(targets, song_id, is_current, failing) ==
    IF targets = <<>> THEN <<>>
    ELSE IF Head(targets) \in failing
    THEN << Ev("send", song_id, Head(targets), is_current, FALSE) >>
    ELSE << Ev("send", song_id, Head(targets), is_current, TRUE) >>
         \o SendLoopStops(Tail(targets), song_id, is_current, failing)

\* the loop of _send_notification over the targets: every target is tried,
\* an exception of one send is caught inside the loop (ok = FALSE)
RECURSIVE SendLoop(_, _, _, _)
SendLoop(targets, song_id, is_current, failing) ==
    IF targets = <<>> THEN <<>>
    ELSE << Ev("send", song_id, Head(targets), is_current, Head(targets) \notin failing) >>
         \o SendLoop(Tail(targets), song_id, is_current, failing)

\* Top2000DataUpdateCoordinator._send_notification
send_notification(song_id, settings, is_current, failing) ==
    SendLoop(settings.notification_targets, song_id, is_current, failing)

\* mutant: the notification type is not looked at
check_and_send_ungated(song_id, settings, is_current, failing) ==
    IF ~matches_notification_rules(SongById(song_id), notification_rules) THEN <<>>
    ELSE send_notification(song_id, settings, is_current, failing)

\* Top2000DataUpdateCoordinator._check_and_send_notifications, after the
\* settings were read: the events it adds
check_and_send_notifications(song_id, settings, is_current, failing) ==
    IF is_current /\ ~settings.notify_current_song THEN <<>>
    ELSE IF ~is_current /\ ~settings.notify_upcoming_song THEN <<>>
    ELSE IF ~matches_notification_rules(SongById(song_id), notification_rules) THEN <<>>
    ELSE send_notification(song_id, settings, is_current, failing)

\* step 5.  db_error: reading the settings or the rules raises;
\* failing: the targets whose service call raises
NotifyCurrent(db_error, failing) ==
    /\ pc = "notify_current"
    /\ LET begun == Append(fx, StepEv("notify_current", song_match))
       IN IF db_error \/ SettingsRaise(notification_settings)
          THEN /\ fx' = begun
               /\ result' = StepRaised("notify_current")
               /\ pc' = "return"
          ELSE /\ fx' = begun \o check_and_send_notifications(
                                    song_match,
                                    get_notification_settings(notification_settings),
                                    TRUE, failing)
               /\ result' = result
               /\ pc' = NextStep("notify_current")
    /\ UNCHANGED <<funVars, sensorVars, now, clientVars, coordVars, npo_metadata, song_match, song_changed,
                   dbVars, contacted, prev>>

\* DatabaseManager.get_song_by_position: the song id, 0 for None
get_song_by_position(position) ==
    IF \E i \in DOMAIN Songs : Songs[i].position = position
    THEN Songs[CHOOSE i \in DOMAIN Songs : Songs[i].position = position].id
    ELSE 0

\* the loop of async_check_upcoming_notifications over the offsets
RECURSIVE UpcomingLoop(_, _, _, _)
UpcomingLoop(offsets, current_position, settings, failing) ==
    IF offsets = <<>> THEN <<>>
    ELSE LET upcoming_position == current_position - Head(offsets)
             upcoming_song == get_song_by_position(upcoming_position)
             rest == UpcomingLoop(Tail(offsets), current_position, settings, failing)
         IN IF upcoming_position < 1 THEN rest
            ELSE IF upcoming_song # 0
                    /\ matches_notification_rules(SongById(upcoming_song), notification_rules)
            THEN send_notification(upcoming_song, settings, FALSE, failing) \o rest
            ELSE rest

\* the position async_check_upcoming_notifications counts down from:
\* self.data["current_song"]["position"], where self.data is what the
\* last tick that returned has left
UpcomingBase == SongById(data.current_song).position

\* step 6, async_check_upcoming_notifications, and the return that follows
NotifyUpcoming(db_error, failing) ==
    /\ pc = "notify_upcoming"
    /\ LET begun == Append(fx, StepEv("notify_upcoming", song_match))
           settings == get_notification_settings(notification_settings)
       IN IF ~data.valid \/ data.current_song = 0
          THEN /\ fx' = begun
               /\ result' = OkResult(song_match, song_changed)
               /\ pc' = NextStep("notify_upcoming")
          ELSE IF db_error \/ SettingsRaise(notification_settings)
          THEN /\ fx' = begun
               /\ result' = StepRaised("notify_upcoming")
               /\ pc' = "return"
          ELSE /\ fx' = begun \o
                        (IF ~settings.notify_upcoming_song THEN <<>>
                         ELSE UpcomingLoop(settings.upcoming_notify_positions,
                                           UpcomingBase, settings, failing))
               /\ result' = OkResult(song_match, song_changed)
               /\ pc' = NextStep("notify_upcoming")
    /\ UNCHANGED <<funVars, sensorVars, now, clientVars, coordVars, npo_metadata, song_match, song_changed,
                   dbVars, contacted, prev>>

\* "x or default" of a list argument: None and [] both take the default
ListOr(arg, default) == IF arg = None \/ arg[1] = <<>> THEN default ELSE arg[1]

\* "x if x is not None else default"
GivenOr(arg, default) == IF arg = None THEN default ELSE arg[1]

\* DatabaseManager.update_notification_settings; each argument is None or
\* Some(value).  The columns given are updated in the row id = 1; when
\* there is no such row, one is inserted
update_notification_settings(row, targets, current, upcoming, positions) ==
    IF targets = None /\ current = None /\ upcoming = None /\ positions = None
    THEN row
    ELSE IF row # None
    THEN Some([notification_targets |->
                   IF targets = None THEN row[1].notification_targets
                   ELSE JsonText(targets[1]),
               notify_current_song |-> GivenOr(current, row[1].notify_current_song),
               notify_upcoming_song |-> GivenOr(upcoming, row[1].notify_upcoming_song),
               upcoming_notify_positions |->
                   IF positions = None THEN row[1].upcoming_notify_positions
                   ELSE JsonText(positions[1])])
    ELSE Some([notification_targets |->
                   JsonText(ListOr(targets, <<"persistent_notification">>)),
               notify_current_song |-> GivenOr(current, TRUE),
               notify_upcoming_song |-> GivenOr(upcoming, FALSE),
               upcoming_notify_positions |-> JsonText(ListOr(positions, <<1, 2, 3>>))])

\* one comma-separated piece of a text field, after strip(): nothing, a
\* decimal integer, or other text
Blank == [kind |-> "blank", int |-> 0, text |-> ""]
IntPiece(n) == [kind |-> "int", int |-> n, text |-> ""]
Word(w) == [kind |-> "word", int |-> 0, text |-> w]

\* "[s.strip() for s in text.split(",") if s.strip()]", or the default
NotifyServices(pieces) ==
    LET notify_services == SelectSeq(pieces, LAMBDA p : p.kind # "blank")
    IN IF notify_services = <<>> THEN <<"persistent_notification">>
       ELSE [i \in DOMAIN notify_services |-> notify_services[i].text]

\* "[int(p.strip()) for p in text.split(",") if p.strip()]", [1, 2, 3]
\* when an int() raises ValueError
UpcomingPositions(pieces) ==
    LET kept == SelectSeq(pieces, LAMBDA p : p.kind # "blank")
    IN IF \E i \in DOMAIN kept : kept[i].kind # "int" THEN <<1, 2, 3>>
       ELSE [i \in DOMAIN kept |-> kept[i].int]

\* what the settings form can submit: both lists are typed as text
TargetTexts ==
    { << Word("persistent_notification") >>,
      << Blank >>,
      << Word("notify.phone"), Word("notify.phone") >> }
PositionTexts ==
    { << IntPiece(1) >>,
      << IntPiece(0) >>,
      << IntPiece(2), Word("x") >> }
SettingsForm(t, c, u, p) ==
    [notification_targets |-> t,
     notify_current_song |-> c,
     notify_upcoming_song |-> u,
     upcoming_notify_positions |-> p]
SettingsInputs ==
    { SettingsForm(<< Word("persistent_notification") >>, c, u, << IntPiece(1) >>) :
        c \in BOOLEAN, u \in BOOLEAN }
    \cup { SettingsForm(t, TRUE, TRUE, p) : t \in TargetTexts, p \in PositionTexts }

\* Top2000OptionsFlow.async_step_notification_settings with user input;
\* it can run between any two steps of a tick
OptionsNotificationSettings(user_input) ==
    /\ notification_settings' =
           update_notification_settings(
               notification_settings,
               Some(NotifyServices(user_input.notification_targets)),
               Some(user_input.notify_current_song),
               Some(user_input.notify_upcoming_song),
               Some(UpcomingPositions(user_input.upcoming_notify_positions)))
    /\ UNCHANGED <<funVars, sensorVars, now, clientVars, coordVars, tickVars, cover, playlist_state,
                   notification_rules, position_history, histVars>>

\* mutant: a failed tick ends the polling
ReturnStopsWhenFailed ==
    /\ pc = "return"
    /\ result.kind # "failed"
    /\ data' = [valid |-> TRUE,
                current_song |-> result.current_song,
                song_changed |-> result.song_changed,
                error |-> result.error]
    /\ last_update_success' = TRUE
    /\ pc' = "idle"
    /\ npo_metadata' = None
    /\ song_match' = 0
    /\ song_changed' = FALSE
    /\ result' = NoResult
    /\ contacted' = <<>>
    /\ fx' = <<>>
    /\ prev' = NoPrev
    /\ UNCHANGED <<funVars, sensorVars, now, clientVars, _last_song_id, dbVars>>

\* mutant: a tick without a resolved song keeps the song shown before
ReturnedDataKeepLast(res, old) ==
    IF res.kind = "failed" \/ (res.kind = "soft" /\ old.valid) THEN old
    ELSE [valid |-> TRUE,
          current_song |-> res.current_song,
          song_changed |-> res.song_changed,
          error |-> res.error]

\* coordinator.data after the tick: the dict _async_update_data returned,
\* or what it was when the tick raised UpdateFailed
ReturnedData(res, old) ==
    IF res.kind = "failed" THEN old
    ELSE [valid |-> TRUE,
          current_song |-> res.current_song,
          song_changed |-> res.song_changed,
          error |-> res.error]

\* CurrentSongSensor: the song shown, 0 for "unavailable"
currentSong ==
    IF ~data.valid \/ data.current_song = 0 THEN 0 ELSE data.current_song

\* a task created for _async_update_upcoming that has not run yet
NewTask == [started |-> FALSE, current_position |-> 0]

\* UpcomingSongsSensor._handle_coordinator_update, d being coordinator.data
handle_coordinator_update(d, tasks) ==
    IF d.valid /\ d.song_changed THEN Append(tasks, NewTask) ELSE tasks

\* DataUpdateCoordinator: the value returned becomes coordinator.data and
\* the listeners are told; UpdateFailed leaves data as it was and clears
\* last_update_success
Return ==
    /\ pc = "return"
    /\ data' = ReturnedData(result, data)
    /\ refresh_tasks' = IF result.kind = "failed" THEN refresh_tasks
                        ELSE handle_coordinator_update(ReturnedData(result, data),
                                                       refresh_tasks)
    /\ _upcoming_songs' = _upcoming_songs
    /\ last_update_success' = (result.kind # "failed")
    /\ pc' = "idle"
    /\ npo_metadata' = None
    /\ song_match' = 0
    /\ song_changed' = FALSE
    /\ result' = NoResult
    /\ contacted' = <<>>
    /\ fx' = <<>>
    /\ prev' = NoPrev
    /\ UNCHANGED <<funVars, now, clientVars, _last_song_id, dbVars>>

Next ==
    \/ AdvanceBy(TimeSteps)
    \/ TickStart
    \/ Stage1
    \/ Stage2
    \/ Stage3
    \/ \E e \in BOOLEAN : Match(e)
    \/ \E e \in BOOLEAN, u \in {"", MusicBrainzUrl} : CoverArt(e, u)
    \/ \E e \in BOOLEAN : PlaylistState(e)
    \/ \E e \in BOOLEAN, f \in FailingSets : NotifyCurrent(e, f)
    \/ \E e \in BOOLEAN, f \in FailingSets : NotifyUpcoming(e, f)
    \/ Return

Spec == Init /\ [][Next]_vars

(***************************************************************************)
(* The cover-art step without database errors: observations with and       *)
(* without an image URL, songs without cover art, with cover art cached    *)
(* now and with cover art cached 24 hours ago or longer, and a lookup that *)
(* finds a URL or none.                                                    *)
(***************************************************************************)
CoverStates ==
    InitialCovers
    \cup { [id \in SongIds |->
               IF id = 2
               THEN SongRow(id, [cover_art_url |-> OldCoverUrl,
                                 cover_art_cached_at |-> Some(0),
                                 musicbrainz_id |-> "mbid"])
               ELSE SongRow(id, NoCover)] }

CoverInit ==
    /\ CoordInit
    /\ cover \in CoverStates
    /\ notification_settings = None
    /\ notification_rules \in InitialRules
    /\ call = NoCall
    /\ ret = NoRet

CoverNext ==
    \/ AdvanceBy(TimeSteps)
    \/ TickStart
    \/ \E o \in WebsiteObservations : Stage(1, Answer(o))
    \/ \E k \in 1..3 : Stage(k, Failure("timeout"))
    \/ Match(FALSE)
    \/ \E u \in {"", MusicBrainzUrl} : CoverArt(FALSE, u)
    \/ PlaylistState(FALSE)
    \/ NotifyCurrent(FALSE, {})
    \/ NotifyUpcoming(FALSE, {})
    \/ Return

CoverSpec == CoverInit /\ [][CoverNext]_vars

(***************************************************************************)
(* The run loop under a fair driver: the periodic timer fires again and    *)
(* again, and every awaited call of a tick returns or raises.  Each step   *)
(* of a tick can raise; the sources answer or time out.                    *)
(***************************************************************************)
LiveInit ==
    /\ CoordInit
    /\ cover = [id \in SongIds |-> SongRow(id, NoCover)]
    /\ notification_settings \in InitialSettings
    /\ notification_rules \in InitialRules
    /\ call = NoCall
    /\ ret = NoRet

LiveNext ==
    \/ AdvanceBy(TimeSteps)
    \/ TickStart
    \/ \E o \in PlainObservations : Stage(1, Answer(o))
    \/ \E k \in 1..3 : Stage(k, Failure("timeout"))
    \/ \E e \in BOOLEAN : Match(e)
    \/ \E e \in BOOLEAN : CoverArt(e, "")
    \/ \E e \in BOOLEAN : PlaylistState(e)
    \/ \E e \in BOOLEAN : NotifyCurrent(e, {})
    \/ \E e \in BOOLEAN : NotifyUpcoming(e, {})
    \/ Return

LiveSpec == LiveInit /\ [][LiveNext]_vars /\ WF_vars(LiveNext)

(***************************************************************************)
(* The same program on a finer clock, for the 30-second window of the      *)
(* metadata cache: ticks 29 and 30 seconds apart, with a database and       *)
(* notify services that do not fail.                                       *)
(***************************************************************************)
ClockSteps == {29, 30}

ClockNext ==
    \/ AdvanceBy(ClockSteps)
    \/ TickStart
    \/ Stage1
    \/ Stage2
    \/ Stage3
    \/ Match(FALSE)
    \/ CoverArt(FALSE, "")
    \/ PlaylistState(FALSE)
    \/ NotifyCurrent(FALSE, {})
    \/ NotifyUpcoming(FALSE, {})
    \/ Return

ClockSpec == Init /\ [][ClockNext]_vars

(***************************************************************************)
(* The notifications: a database and services that do not fail, sources    *)
(* that answer or time out, rules that match either song the sources can   *)
(* report, and the settings form submitted at any moment.                  *)
(***************************************************************************)
NotifyRules ==
    InitialRules
    \cup { << [rule_type |-> "title", match_pattern |-> <<"d","q">>, enabled |-> TRUE] >> }

\* a settings row whose target list is text json.loads rejects, as a
\* database written by another tool or by hand can hold
MalformedSettings ==
    { Some([notification_targets |-> BadText,
            notify_current_song |-> TRUE,
            notify_upcoming_song |-> FALSE,
            upcoming_notify_positions |-> JsonText(<<1>>)]) }

NotifyInit ==
    /\ CoordInit
    /\ cover = [id \in SongIds |-> SongRow(id, NoCover)]
    /\ notification_settings \in InitialSettings \cup MalformedSettings
    /\ notification_rules \in NotifyRules
    /\ call = NoCall
    /\ ret = NoRet

NotifyNext ==
    \/ AdvanceBy(TimeSteps)
    \/ TickStart
    \/ \E o \in PlainObservations : Stage(1, Answer(o))
    \/ \E k \in 1..3 : Stage(k, Failure("timeout"))
    \/ Match(FALSE)
    \/ CoverArt(FALSE, "")
    \/ PlaylistState(FALSE)
    \/ NotifyCurrent(FALSE, {})
    \/ NotifyUpcoming(FALSE, {})
    \/ Return
    \/ \E user_input \in SettingsInputs : OptionsNotificationSettings(user_input)

NotifySpec == NotifyInit /\ [][NotifyNext]_vars

(***************************************************************************)
(* DatabaseManager.match_song on its own: catalogs of up to MaxCatalog     *)
(* rows of a pool of songs, in every enumeration order, and a query.       *)
(* Artists and titles are never empty: the importer's pattern and the      *)
(* sources' parsers give at least one character.                           *)
(***************************************************************************)
MaxCatalog == 3

TitleA == <<"a","b","c","d","e","f","g","h","i","j">>
TitleB == <<"a","X","c","d","Y","f","g","Z","i","j">>

SongPool ==
    { [id |-> 1, position |-> 5, artist |-> <<"Q","u">>, title |-> <<"B","o">>],
      [id |-> 2, position |-> 4, artist |-> <<"Q","u">>, title |-> <<"B","o","x">>],
      [id |-> 3, position |-> 3, artist |-> <<"A","b">>, title |-> <<"D","q">>],
      [id |-> 4, position |-> 2, artist |-> <<"T","h">>, title |-> TitleB],
      [id |-> 5, position |-> 1, artist |-> <<"Q","u">>, title |-> <<"B","o","y">>] }

\* the tables songs can be: rows of the pool, each at most once, in any order
Catalogs ==
    UNION { { rows \in [1..n -> SongPool] :
                \A i, j \in 1..n : i # j => rows[i] # rows[j] } : n \in 0..MaxCatalog }

\* what is asked: the strings of a pool song as they are stored, a variant
\* in another case with text around the title, a title 7 of whose 10
\* characters agree with a song's, and strings near no song
Queries ==
    { [artist |-> e.artist, title |-> e.title] : e \in SongPool }
    \cup { [artist |-> <<"Q","U">>, title |-> <<"x","B","o","y">>],
           [artist |-> <<"T","h">>, title |-> TitleA],
           [artist |-> <<"Q","u">>, title |-> <<"B","x">>],
           [artist |-> <<"Z","z">>, title |-> <<"Z","z">>] }

MatchCalls ==
    { [op |-> "match_song", songs |-> rows, artist |-> q.artist, title |-> q.title] :
        rows \in Catalogs, q \in Queries }

MatchInit ==
    /\ CoordInit
    /\ cover = [id \in SongIds |-> SongRow(id, NoCover)]
    /\ notification_settings = None
    /\ notification_rules = <<>>
    /\ call \in MatchCalls
    /\ ret = NoRet

\* the call returns: the id of best_match (0 for None) and best_score
MatchSong ==
    /\ call.op = "match_song"
    /\ ~ret.done
    /\ ret' = [done |-> TRUE,
               val |-> [id |-> match_song(call.songs, call.artist, call.title),
                        score |-> best_score(call.songs, call.artist, call.title)]]
    /\ UNCHANGED <<now, clientVars, coordVars, tickVars, dbVars, histVars, sensorVars, call>>

MatchNext == MatchSong

MatchSpec == MatchInit /\ [][MatchNext]_vars

(***************************************************************************)
(* DatabaseManager.get_upcoming_songs and the coordinator method that      *)
(* calls it, as a call on its own: a songs table, the coordinator's data   *)
(* and a count.  songs.position is NOT NULL UNIQUE, so the rows of a table *)
(* have distinct positions.                                                *)
(***************************************************************************)
MaxRows == 4
MaxCount == 2

\* mutant: WHERE position <= ?
WherePositionAtMost(rows, current_position) ==
    SelectSeq(rows, LAMBDA r : r.position <= current_position)

\* WHERE position < ?
WherePositionBelow(rows, current_position) ==
    SelectSeq(rows, LAMBDA r : r.position < current_position)

\* ORDER BY position DESC
RECURSIVE OrderByPositionDesc(_)
OrderByPositionDesc(rows) ==
    IF rows = <<>> THEN <<>>
    ELSE LET i == CHOOSE k \in DOMAIN rows :
                      \A j \in DOMAIN rows : rows[j].position <= rows[k].position
         IN <<rows[i]>>
            \o OrderByPositionDesc(SubSeq(rows, 1, i - 1) \o SubSeq(rows, i + 1, Len(rows)))

\* LIMIT ?
Limit(rows, count) ==
    SubSeq(rows, 1, IF count < Len(rows) THEN count ELSE Len(rows))

\* DatabaseManager.get_upcoming_songs
get_upcoming_songs(rows, current_position, count) ==
    Limit(OrderByPositionDesc(WherePositionBelow(rows, current_position)), count)

\* the row of the song with this id
RowById(rows, id) == rows[CHOOSE i \in DOMAIN rows : rows[i].id = id]

\* Top2000DataUpdateCoordinator.async_get_upcoming_songs, d being self.data
async_get_upcoming_songs(rows, d, count) ==
    IF ~d.valid \/ d.current_song = 0 THEN <<>>
    ELSE get_upcoming_songs(rows, RowById(rows, d.current_song).position, count)

\* the tables the call runs on
UpcomingCatalogs ==
    UNION { { rows \in [1..n -> SongPool] :
                \A i, j \in 1..n : i # j => rows[i] # rows[j] } : n \in 0..MaxRows }

\* self.data when the sensor asks: nothing returned yet, a tick that
\* returned no song, or a tick that returned a song of the table
UpcomingData(rows) ==
    {NoData, ReturnedData(SoftResult("No metadata available"), NoData)}
    \cup { ReturnedData(OkResult(rows[i].id, TRUE), NoData) : i \in DOMAIN rows }

UpcomingCalls ==
    UNION { { [op |-> "upcoming_songs", songs |-> rows, data |-> d, count |-> n] :
                d \in UpcomingData(rows), n \in 1..MaxCount } :
            rows \in UpcomingCatalogs }

UpcomingInit ==
    /\ CoordInit
    /\ cover = [id \in SongIds |-> SongRow(id, NoCover)]
    /\ notification_settings = None
    /\ notification_rules = <<>>
    /\ call \in UpcomingCalls
    /\ ret = NoRet

\* UpcomingSongsSensor._async_update_upcoming: the call returns its list
UpcomingSongs ==
    /\ call.op = "upcoming_songs"
    /\ ~ret.done
    /\ ret' = [done |-> TRUE,
               val |-> async_get_upcoming_songs(call.songs, call.data, call.count)]
    /\ UNCHANGED <<now, clientVars, coordVars, tickVars, dbVars, histVars, sensorVars, call>>

UpcomingNext == UpcomingSongs

UpcomingSpec == UpcomingInit /\ [][UpcomingNext]_vars

(***************************************************************************)
(* Top2000DataImporter.import_data on an empty database, then              *)
(* DatabaseManager.get_position_history for a song it created.  The        *)
(* database travels in call and ret: songs is the rows in insertion order, *)
(* seq the last id AUTOINCREMENT gave out, position_history a set of rows  *)
(* in which (song_id, year) is unique.                                     *)
(***************************************************************************)
MaxTracks == 2

\* the first and last key of EDITION_FILES
FirstEdition == 2018
LastEdition == 2025
EDITION_FILES == FirstEdition..LastEdition

\* the year get_position_history compares with, and its default limit
HistoryYearBound == 2025
HistoryLimit == 5

\* what import_years can be asked for: any editions, one of them without
\* a file; the empty list stands for the default
ImportYearPool == (FirstEdition - 1)..LastEdition
DefaultImportYears == FirstEdition..LastEdition

\* self.tracks after _import_tracks: track_id -> artist, title
TrackPool ==
    << [artist |-> <<"Q","u">>, title |-> <<"B","o">>],
       [artist |-> <<"A","b">>, title |-> <<"D","q">>],
       [artist |-> <<"T","h">>, title |-> <<"E","n">>] >>
Tracks == [t \in 1..MaxTracks |-> TrackPool[t]]

\* the Listing rows of an edition file, in file order: every track each
\* year, or the later tracks in even years only
ListingKinds == {"all", "some"}
Listed(kind, year, t) == kind = "all" \/ t = 1 \/ year % 2 = 0
RECURSIVE ListingFrom(_, _, _)
ListingFrom(kind, year, t) ==
    IF t > MaxTracks THEN <<>>
    ELSE (IF Listed(kind, year, t)
          THEN << [track_id |-> t, position |-> ((t + year) % MaxTracks) + 1] >>
          ELSE <<>>)
         \o ListingFrom(kind, year, t + 1)
Listing(kind, year) == ListingFrom(kind, year, 1)

EmptyDb == [songs |-> <<>>, seq |-> 0, position_history |-> {}]

\* DatabaseManager.insert_song: INSERT OR REPLACE on a UNIQUE position
insert_song(db, position, artist, title) ==
    [db EXCEPT !.songs = SelectSeq(db.songs, LAMBDA r : r.position # position)
                         \o << [id |-> db.seq + 1, position |-> position,
                                artist |-> artist, title |-> title] >>,
               !.seq = db.seq + 1]

\* DatabaseManager.add_position_history: INSERT OR REPLACE on (song_id, year)
add_position_history(db, song_id, year, position) ==
    [db EXCEPT !.position_history =
        { r \in db.position_history : ~(r.song_id = song_id /\ r.year = year) }
        \cup { [song_id |-> song_id, year |-> year, position |-> position] }]

\* DatabaseManager.get_song_by_artist_title: the id of the first row whose
\* artist and title are equal up to case, 0 for None
get_song_by_artist_title(db, artist, title) ==
    LET hits == SelectSeq(db.songs, LAMBDA r : /\ Lower(r.artist) = Lower(artist)
                                               /\ Lower(r.title) = Lower(title))
    IN IF hits = <<>> THEN 0 ELSE hits[1].id

\* the loop of _import_listings over the rows of one edition
RECURSIVE ListingLoop(_, _, _, _)
ListingLoop(db, matches, year, create_songs) ==
    IF matches = <<>> THEN db
    ELSE LET m == Head(matches)
             track == Tracks[m.track_id]
             song == get_song_by_artist_title(db, track.artist, track.title)
             next ==
                 IF create_songs
                 THEN add_position_history(
                          insert_song(db, m.position, track.artist, track.title),
                          db.seq + 1, year, m.position)
                 ELSE IF song # 0
                      THEN add_position_history(db, song, year, m.position)
                      ELSE db
         IN ListingLoop(next, Tail(matches), year, create_songs)

\* Top2000DataImporter._import_listings
import_listings(db, kind, year, create_songs) ==
    IF year \notin EDITION_FILES THEN db
    ELSE ListingLoop(db, Listing(kind, year), year, create_songs)

\* sorted(import_years, reverse=True)
RECURSIVE SortedReverse(_)
SortedReverse(years) ==
    IF years = {} THEN <<>>
    ELSE LET m == CHOOSE y \in years : \A z \in years : z <= y
         IN <<m>> \o SortedReverse(years \ {m})

RECURSIVE HistoricalLoop(_, _, _)
HistoricalLoop(db, kind, years) ==
    IF years = <<>> THEN db
    ELSE HistoricalLoop(import_listings(db, kind, Head(years), FALSE), kind, Tail(years))

\* Top2000DataImporter.__init__: import_years or the default
EffectiveYears(import_years) ==
    IF import_years = {} THEN DefaultImportYears ELSE import_years

\* Top2000DataImporter.import_data on a database that is not populated
import_data(db, kind, import_years) ==
    LET sorted_years == SortedReverse(EffectiveYears(import_years))
        first_year == sorted_years[1]
    IN HistoricalLoop(import_listings(db, kind, first_year, TRUE), kind, Tail(sorted_years))

\* ORDER BY year DESC of a set of history rows
RECURSIVE OrderByYearDesc(_)
OrderByYearDesc(rows) ==
    IF rows = {} THEN <<>>
    ELSE LET r == CHOOSE x \in rows : \A z \in rows : z.year <= x.year
         IN << [year |-> r.year, position |-> r.position] >> \o OrderByYearDesc(rows \ {r})

\* DatabaseManager.get_position_history
get_position_history(db, song_id, limit) ==
    Limit(OrderByYearDesc({ r \in db.position_history :
                              r.song_id = song_id /\ r.year < HistoryYearBound }),
          limit)

ImportCalls ==
    { [op |-> "import_data", kind |-> k, import_years |-> ys, song_id |-> 0] :
        k \in ListingKinds, ys \in SUBSET ImportYearPool }

HistoryInit ==
    /\ CoordInit
    /\ cover = [id \in SongIds |-> SongRow(id, NoCover)]
    /\ notification_settings = None
    /\ notification_rules = <<>>
    /\ call \in ImportCalls
    /\ ret = [done |-> FALSE, val |-> EmptyDb]

\* import_data returns: ret holds the database it has filled
ImportData ==
    /\ call.op = "import_data"
    /\ ~ret.done
    /\ ret' = [done |-> TRUE, val |-> import_data(ret.val, call.kind, call.import_years)]
    /\ UNCHANGED <<now, clientVars, coordVars, tickVars, dbVars, histVars, sensorVars, call>>

\* get_song_details or get_upcoming_songs asks for the history of a song
\* of the imported table
GetPositionHistory ==
    /\ call.op = "import_data"
    /\ ret.done
    /\ \E i \in DOMAIN ret.val.songs :
          /\ call' = [call EXCEPT !.op = "get_position_history",
                                  !.song_id = ret.val.songs[i].id]
          /\ ret' = [done |-> TRUE,
                     val |-> get_position_history(ret.val, ret.val.songs[i].id,
                                                  HistoryLimit)]
    /\ UNCHANGED <<now, clientVars, coordVars, tickVars, dbVars, histVars, sensorVars>>

HistoryNext == ImportData \/ GetPositionHistory

HistorySpec == HistoryInit /\ [][HistoryNext]_vars

(***************************************************************************)
(* Top2000DataUpdateCoordinator._matches_notification_rules as a call on   *)
(* its own: a song and the stored rules, in any order.  rule_type and      *)
(* match_pattern are NOT NULL text; the options flow stores whatever       *)
(* string was typed, the empty one included.                               *)
(***************************************************************************)
MaxRules == 2

RulePool ==
    { [rule_type |-> "artist", match_pattern |-> <<"Q","U">>, enabled |-> TRUE],
      [rule_type |-> "artist", match_pattern |-> <<"q","u">>, enabled |-> FALSE],
      [rule_type |-> "artist", match_pattern |-> <<"D","q">>, enabled |-> TRUE],
      [rule_type |-> "title", match_pattern |-> <<"d","Q">>, enabled |-> TRUE],
      [rule_type |-> "title", match_pattern |-> <<"o","x">>, enabled |-> FALSE],
      [rule_type |-> "title", match_pattern |-> <<>>, enabled |-> FALSE],
      [rule_type |-> "position_range", match_pattern |-> <<"D","q">>, enabled |-> TRUE] }

RuleTables == UNION { [1..n -> RulePool] : n \in 0..MaxRules }

RuleCalls ==
    { [op |-> "matches_notification_rules", song |-> s, rules |-> rs] :
        s \in SongPool, rs \in RuleTables }

RulesInit ==
    /\ CoordInit
    /\ cover = [id \in SongIds |-> SongRow(id, NoCover)]
    /\ notification_settings = None
    /\ notification_rules = <<>>
    /\ call \in RuleCalls
    /\ ret = NoRet

\* the call returns True or False
MatchesRules ==
    /\ call.op = "matches_notification_rules"
    /\ ~ret.done
    /\ ret' = [done |-> TRUE, val |-> matches_notification_rules(call.song, call.rules)]
    /\ UNCHANGED <<now, clientVars, coordVars, tickVars, dbVars, histVars, sensorVars, call>>

RulesNext == MatchesRules

RulesSpec == RulesInit /\ [][RulesNext]_vars

(***************************************************************************)
(* Set-up: Top2000ConfigFlow.async_step_user with a submitted form, then   *)
(* async_setup_entry with the entry it created.  Numbers are kept in       *)
(* tenths, so that what the form coerces with int() can be a fraction.     *)
(***************************************************************************)
MIN_UPDATE_INTERVAL == 15
MAX_UPDATE_INTERVAL == 120
DEFAULT_UPDATE_INTERVAL == 30
DEFAULT_UPCOMING_COUNT == 10

Absent == [kind |-> "absent", tenths |-> 0]
Number(t) == [kind |-> "number", tenths |-> t]
Text == [kind |-> "word", tenths |-> 0]

\* int() on a number: the fraction is cut off, towards zero
Truncated(t) == IF t >= 0 THEN t \div 10 ELSE 0 - ((0 - t) \div 10)

\* mutant: only the upper end of the range is checked
RangeMaxOnly(v) == v <= MAX_UPDATE_INTERVAL

\* vol.Range(min=MIN_UPDATE_INTERVAL, max=MAX_UPDATE_INTERVAL)
Range(v) == MIN_UPDATE_INTERVAL <= v /\ v <= MAX_UPDATE_INTERVAL

\* vol.Optional(CONF_UPDATE_INTERVAL, default=...): vol.All(vol.Coerce(int),
\* vol.Range(...)): the validated value, None when the form is rejected
ValidInterval(field) ==
    IF field.kind = "absent" THEN Some(DEFAULT_UPDATE_INTERVAL)
    ELSE IF field.kind = "word" THEN None
    ELSE IF Range(Truncated(field.tenths)) THEN Some(Truncated(field.tenths))
    ELSE None

\* vol.Optional(CONF_UPCOMING_COUNT, default=...): vol.In([10, 20])
ValidCount(field) ==
    IF field.kind = "absent" THEN Some(DEFAULT_UPCOMING_COUNT)
    ELSE IF field.kind = "number" /\ field.tenths \in {100, 200}
    THEN Some(field.tenths \div 10)
    ELSE None

\* what can be typed into the form
IntervalFields ==
    {Absent, Text}
    \cup { Number(t) : t \in {-150, 0, 10, 140, 149, 150, 155, 300, 1200, 1209, 1210, 3000} }
CountFields == {Absent, Text, Number(100), Number(200), Number(150)}

UserForms ==
    { [op |-> "async_step_user", update_interval |-> i, upcoming_count |-> c,
       enable_notifications |-> n] :
        i \in IntervalFields, c \in CountFields, n \in BOOLEAN }

\* Top2000ConfigFlow.async_step_user with user_input: the form is shown
\* again with errors, or the entry is created from the validated input
async_step_user(form) ==
    LET interval == ValidInterval(form.update_interval)
        count == ValidCount(form.upcoming_count)
    IN IF interval = None \/ count = None
       THEN [type |-> "form", data |-> <<>>]
       ELSE [type |-> "create_entry",
             data |-> << [update_interval |-> interval,
                          upcoming_count |-> count[1],
                          enable_notifications |-> form.enable_notifications] >>]

\* async_setup_entry and Top2000DataUpdateCoordinator.__init__: the
\* seconds of the coordinator's update_interval, taken from
\* entry.data.get(CONF_UPDATE_INTERVAL, DEFAULT_UPDATE_INTERVAL)
async_setup_entry(entry) ==
    [update_interval |-> IF entry.update_interval = None THEN DEFAULT_UPDATE_INTERVAL
                         ELSE entry.update_interval[1],
     upcoming_count |-> entry.upcoming_count]

SetupInit ==
    /\ CoordInit
    /\ cover = [id \in SongIds |-> SongRow(id, NoCover)]
    /\ notification_settings = None
    /\ notification_rules = <<>>
    /\ call \in UserForms
    /\ ret = NoRet

\* the form is submitted
SubmitUserForm ==
    /\ call.op = "async_step_user"
    /\ ~ret.done
    /\ ret' = [done |-> TRUE, val |-> async_step_user(call)]
    /\ UNCHANGED <<now, clientVars, coordVars, tickVars, dbVars, histVars, sensorVars, call>>

\* Home Assistant sets up the entry the flow created
SetupEntry ==
    /\ call.op = "async_step_user"
    /\ ret.done
    /\ ret.val.type = "create_entry"
    /\ call' = [call EXCEPT !.op = "async_setup_entry"]
    /\ ret' = [done |-> TRUE, val |-> async_setup_entry(ret.val.data[1])]
    /\ UNCHANGED <<now, clientVars, coordVars, tickVars, dbVars, histVars, sensorVars>>

SetupNext == SubmitUserForm \/ SetupEntry

SetupSpec == SetupInit /\ [][SetupNext]_vars

(***************************************************************************)
(* The upcoming-songs sensor.  Every refresh that returned a song change   *)
(* creates a task running _async_update_upcoming; a task runs up to its    *)
(* await of the database, and from there to its end, at any await of a     *)
(* tick or between ticks.  The sources answer, the database and the notify *)
(* services do not fail.                                                   *)
(***************************************************************************)
\* UpcomingSongsSensor._upcoming_count, from the entry or the default
_upcoming_count == DEFAULT_UPCOMING_COUNT

RECURSIVE RowIds(_)
RowIds(rows) == IF rows = <<>> THEN <<>> ELSE <<Head(rows).id>> \o RowIds(Tail(rows))

\* the list _async_update_upcoming builds from the rows it was given
FormatUpcoming(upcoming) == RowIds(upcoming)

Without(tasks, i) == SubSeq(tasks, 1, i - 1) \o SubSeq(tasks, i + 1, Len(tasks))

\* the oldest task that has not run yet, 0 for none
NextToStart ==
    IF \E i \in DOMAIN refresh_tasks : ~refresh_tasks[i].started
    THEN CHOOSE i \in DOMAIN refresh_tasks :
             /\ ~refresh_tasks[i].started
             /\ \A j \in 1..(i - 1) : refresh_tasks[j].started
    ELSE 0

\* a task begins: async_get_upcoming_songs reads self.data and either
\* returns [] at once, and the task runs to its end, or awaits the query
TaskStart ==
    /\ NextToStart # 0
    /\ IF ~data.valid \/ data.current_song = 0
       THEN /\ _upcoming_songs' = FormatUpcoming(<<>>)
            /\ refresh_tasks' = Without(refresh_tasks, NextToStart)
       ELSE /\ refresh_tasks' =
                   [refresh_tasks EXCEPT ![NextToStart] =
                       [started |-> TRUE,
                        current_position |-> SongById(data.current_song).position]]
            /\ _upcoming_songs' = _upcoming_songs
    /\ UNCHANGED <<now, clientVars, coordVars, tickVars, dbVars, histVars, funVars>>

\* the query of task i returns: the task formats the rows, assigns the
\* list and ends
TaskFinish(i) ==
    /\ i \in DOMAIN refresh_tasks
    /\ refresh_tasks[i].started
    /\ _upcoming_songs' =
           FormatUpcoming(get_upcoming_songs(Songs, refresh_tasks[i].current_position,
                                             _upcoming_count))
    /\ refresh_tasks' = Without(refresh_tasks, i)
    /\ UNCHANGED <<now, clientVars, coordVars, tickVars, dbVars, histVars, funVars>>

SensorInit ==
    /\ CoordInit
    /\ cover = [id \in SongIds |-> SongRow(id, NoCover)]
    /\ notification_settings = None
    /\ notification_rules = <<>>
    /\ call = NoCall
    /\ ret = NoRet

SensorNext ==
    \/ AdvanceBy(TimeSteps)
    \/ TickStart
    \/ \E o \in PlainObservations : Stage(1, Answer(o))
    \/ Match(FALSE)
    \/ CoverArt(FALSE, "")
    \/ PlaylistState(FALSE)
    \/ NotifyCurrent(FALSE, {})
    \/ NotifyUpcoming(FALSE, {})
    \/ Return
    \/ TaskStart
    \/ \E i \in DOMAIN refresh_tasks : TaskFinish(i)

SensorSpec == SensorInit /\ [][SensorNext]_vars

(***************************************************************************)
(* DatabaseManager.update_notification_settings followed by                *)
(* get_notification_settings, as calls on their own: a table with or       *)
(* without the settings row, and every choice of arguments given or left   *)
(* out.                                                                    *)
(***************************************************************************)
\* the settings table before the call
StoredSettings ==
    { None,
      Some([notification_targets |-> JsonText(<<"notify.phone">>),
            notify_current_song |-> FALSE,
            notify_upcoming_song |-> TRUE,
            upcoming_notify_positions |-> JsonText(<<2>>)]),
      Some([notification_targets |-> JsonText(<<>>),
            notify_current_song |-> TRUE,
            notify_upcoming_song |-> FALSE,
            upcoming_notify_positions |-> JsonText(<<>>)]) }

\* the arguments of a call: None, or a value
TargetArgs == {None, Some(<<>>), Some(<<"persistent_notification", "notify.phone">>)}
FlagArgs == {None, Some(TRUE), Some(FALSE)}
PositionArgs == {None, Some(<<>>), Some(<<1, 5>>)}

UpdateSettingsCalls ==
    { [op |-> "update_notification_settings",
       notification_targets |-> t, notify_current_song |-> c,
       notify_upcoming_song |-> u, upcoming_notify_positions |-> p] :
        t \in TargetArgs, c \in FlagArgs, u \in FlagArgs, p \in PositionArgs }

RoundTripInit ==
    /\ CoordInit
    /\ cover = [id \in SongIds |-> SongRow(id, NoCover)]
    /\ notification_settings \in StoredSettings
    /\ notification_rules = <<>>
    /\ call \in UpdateSettingsCalls
    /\ ret = NoRet

\* the update is made; prev keeps the table the call found
UpdateNotificationSettings ==
    /\ call.op = "update_notification_settings"
    /\ notification_settings' =
           update_notification_settings(notification_settings,
                                        call.notification_targets,
                                        call.notify_current_song,
                                        call.notify_upcoming_song,
                                        call.upcoming_notify_positions)
    /\ prev' = [id |-> 0, state |-> notification_settings]
    /\ call' = [call EXCEPT !.op = "get_notification_settings"]
    /\ UNCHANGED <<now, clientVars, coordVars, tickVars, cover, playlist_state,
                   notification_rules, position_history, contacted, fx, sensorVars, ret>>

\* the settings are read back
GetNotificationSettings ==
    /\ call.op = "get_notification_settings"
    /\ ~ret.done
    /\ ret' = [done |-> TRUE, val |-> get_notification_settings(notification_settings)]
    /\ UNCHANGED <<now, clientVars, coordVars, tickVars, dbVars, histVars, sensorVars, call>>

RoundTripNext == UpdateNotificationSettings \/ GetNotificationSettings

RoundTripSpec == RoundTripInit /\ [][RoundTripNext]_vars

(***************************************************************************)
(* Top2000DataImporter._import_tracks as a call on its own.  TRACK_FILES   *)
(* is in chronological order, oldest file first; a file is the Track rows  *)
(* its INSERT statements hold, in file order, and is empty when its        *)
(* download failed or the pattern found nothing.                           *)
(***************************************************************************)
MaxFiles == 3
MaxFileRows == 2

\* the Track rows a file can hold: two tracks, the first in two versions
TrackRowPool ==
    { [track_id |-> 1, title |-> <<"B","o">>, artist |-> <<"Q","u">>, year |-> 1975],
      [track_id |-> 1, title |-> <<"B","o","x">>, artist |-> <<"Q","u">>, year |-> 1976],
      [track_id |-> 2, title |-> <<"D","q">>, artist |-> <<"A","b">>, year |-> 1980] }

TrackFileContents ==
    UNION { [1..n -> TrackRowPool] : n \in 0..MaxFileRows }

\* the loop over the matches of one file: "if track_id not in self.tracks"
RECURSIVE TrackMatchLoop(_, _)
TrackMatchLoop(matches, tracks) ==
    IF matches = <<>> THEN tracks
    ELSE LET match == Head(matches)
         IN TrackMatchLoop(Tail(matches),
                           IF match.track_id \notin DOMAIN tracks
                           THEN tracks @@ (match.track_id :>
                                               [artist |-> match.artist,
                                                title |-> match.title,
                                                year |-> match.year])
                           ELSE tracks)

\* the loop of _import_tracks over TRACK_FILES, first file first
RECURSIVE TrackFileLoop(_, _)
TrackFileLoop(files, tracks) ==
    IF files = <<>> THEN tracks
    ELSE TrackFileLoop(Tail(files), TrackMatchLoop(Head(files), tracks))

\* Top2000DataImporter._import_tracks: self.tracks when it returns
import_tracks(files) == TrackFileLoop(files, <<>>)

ImportTracksCalls ==
    { [op |-> "import_tracks", files |-> fs] :
        fs \in UNION { [1..n -> TrackFileContents] : n \in 1..MaxFiles } }

TracksInit ==
    /\ CoordInit
    /\ cover = [id \in SongIds |-> SongRow(id, NoCover)]
    /\ notification_settings = None
    /\ notification_rules = <<>>
    /\ call \in ImportTracksCalls
    /\ ret = NoRet

ImportTracks ==
    /\ call.op = "import_tracks"
    /\ ~ret.done
    /\ ret' = [done |-> TRUE, val |-> import_tracks(call.files)]
    /\ UNCHANGED <<now, clientVars, coordVars, tickVars, dbVars, histVars, sensorVars, call>>

TracksNext == ImportTracks

TracksSpec == TracksInit /\ [][TracksNext]_vars

(***************************************************************************)
(* Properties.  A tick has settled when pc = "return": its result is       *)
(* known, its effects are in fx, and prev holds what it started from.      *)
(***************************************************************************)
StepSequence == <<"cover_art", "playlist_state", "notify_current", "notify_upcoming">>

\* the steps of the transition that have begun, in the order they began
StepsBegun ==
    LET marks == SelectSeq(fx, LAMBDA e : e.op \in {"cover_art", "playlist_state",
                                                    "notify_current", "notify_upcoming"})
    IN [i \in DOMAIN marks |-> marks[i].op]

Count(op) == Cardinality({i \in DOMAIN fx : fx[i].op = op})

IsPrefix(a, b) == Len(a) <= Len(b) /\ a = SubSeq(b, 1, Len(a))

\* the step an effect belongs to
StepRank(e) ==
    CASE e.op \in {"cover_art", "cover_lookup", "cover_write"} -> 1
      [] e.op \in {"playlist_state", "state_write"} -> 2
      [] e.op = "notify_current" \/ (e.op = "send" /\ e.cur) -> 3
      [] e.op = "notify_upcoming" \/ (e.op = "send" /\ ~e.cur) -> 4

TransitionSettled == pc = "return" /\ song_changed

\* C1: a tick that resolves the song already tracked begins no side-effect
\* step, looks up and writes no cover art, writes no PlaybackState row,
\* sends nothing, and leaves the tracked id as it was.
C1_SameSongIsNoOp ==
    (pc = "return" /\ song_match # 0 /\ song_match = prev.id)
        => /\ fx = <<>>
           /\ _last_song_id = prev.id
           /\ playlist_state = prev.state
           /\ result = OkResult(song_match, FALSE)

C1_Witness ==
    pc = "return" /\ song_match # 0 /\ song_match = prev.id /\ prev.state # None

\* C2: every detected transition has exactly one evaluation of the
\* notification rules for the new current song.
C2_OneEvaluationPerTransition ==
    TransitionSettled => Count("notify_current") = 1

\* C3: on a transition all four side-effect steps are attempted, whichever
\* of them fails.
C3_AllStepsAttempted ==
    TransitionSettled => StepsBegun = StepSequence

\* C4: a tick is a failed tick only when the acquisition-or-match path failed.
C4_FailedOnlyInAcquireOrMatch ==
    result.kind = "failed" => result.error = "match"

\* C5: the side effects of a transition begin in the order cover art,
\* PlaybackState, current-song rules, upcoming window; every effect of a
\* step is before the next step begins, and the tick is at the step after
\* the last one begun.
C5_FixedStepOrder ==
    /\ IsPrefix(StepsBegun, StepSequence)
    /\ \A i, j \in DOMAIN fx : i < j => StepRank(fx[i]) <= StepRank(fx[j])
    /\ pc \in {"cover_art", "playlist_state", "notify_current", "notify_upcoming"}
          => /\ Len(StepsBegun) < Len(StepSequence)
             /\ pc = StepSequence[Len(StepsBegun) + 1]

C5_Witness ==
    /\ pc = "return"
    /\ StepsBegun = StepSequence
    /\ \E i, j \in DOMAIN fx :
          /\ fx[i].op = "cover_write"
          /\ fx[j].op = "send" /\ ~fx[j].cur

\* C6: whenever a tick has resolved a song the tracked id is that song's
\* id, and a tracked id never goes back to None.
C6_TrackedIsResolved ==
    [][ /\ song_match' # 0 => _last_song_id' = song_match'
        /\ _last_song_id # 0 => _last_song_id' # 0 ]_vars

C6_Witness ==
    pc = "return" /\ song_match # 0 /\ prev.id # 0 /\ song_match # prev.id

\* the tick ended with no observation / with an observation no song matches
NotFoundTick == pc = "return" /\ npo_metadata = None
NoMatchTick ==
    pc = "return" /\ npo_metadata # None /\ song_match = 0 /\ result.error # "match"

\* C7: a tick that ends NotFound or NoMatch returns a soft error and
\* leaves the tracked id and the PlaybackState row as they were, with no
\* side effect.
C7_SoftTickKeepsState ==
    (NotFoundTick \/ NoMatchTick)
        => /\ result.kind = "soft"
           /\ result.error # ""
           /\ _last_song_id = prev.id
           /\ playlist_state = prev.state
           /\ fx = <<>>

C7_Witness ==
    /\ NotFoundTick
    /\ prev.id # 0
    /\ prev.state # None

AllFailed(log) == \A i \in DOMAIN log : log[i].outcome # "observation"

\* C9: the stages are contacted in the order 1, 2, 3, each at most once;
\* a stage is contacted only after all the earlier ones failed, and none
\* after a stage has given an observation; a cache hit contacts none.
C9_StagesInOrder ==
    /\ \A i \in DOMAIN contacted : contacted[i].stage = i
    /\ Len(contacted) <= 3
    /\ \A i \in DOMAIN contacted :
          i < Len(contacted) => contacted[i].outcome # "observation"
    /\ pc \in {"stage1", "stage2", "stage3"}
          => AllFailed(contacted) /\ pc = StagePc(Len(contacted) + 1)
    /\ (npo_metadata # None /\ contacted # <<>>)
          => contacted[Len(contacted)].outcome = "observation"

C9_Witness ==
    /\ pc = "match"
    /\ Len(contacted) = 3
    /\ contacted[3].outcome = "observation"

\* C10: once the fetch has ended, it has reported NotFound exactly when
\* all three stages were contacted and all three failed; stage failures,
\* raised or returned, never fail the tick.
C10_NotFoundIffAllFailed ==
    pc \notin {"idle", "stage1", "stage2", "stage3"}
        => /\ npo_metadata = None <=> (Len(contacted) = 3 /\ AllFailed(contacted))
           /\ npo_metadata = None => result.kind = "soft"

C10_Witness ==
    /\ pc = "match"
    /\ Len(contacted) = 3
    /\ contacted[1].outcome = "raised"
    /\ contacted[2].outcome = "none"

\* C11: a call of get_current_metadata made less than 30 seconds after the
\* last successful stage returns the observation cached then and contacts
\* no source (the cache is left as it was); a call made 30 seconds or more
\* after it goes to the first source again.  Sources are contacted only
\* by the stages of the chain.
C11_CacheWindow ==
    [][ /\ (pc = "idle" /\ pc' # "idle")
            => IF _last_fetch # None /\ now - _last_fetch[1] < 30
               THEN /\ _cached_metadata # None
                    /\ npo_metadata' = _cached_metadata
                    /\ pc' = "match"
                    /\ contacted' = <<>>
                    /\ UNCHANGED clientVars
               ELSE /\ pc' = "stage1"
                    /\ npo_metadata' = None
        /\ pc \notin {"stage1", "stage2", "stage3"}
            => contacted' \in {contacted, <<>>} ]_vars

C11_Witness ==
    /\ pc = "match"
    /\ contacted = <<>>
    /\ now - _last_fetch[1] = 29
    /\ npo_metadata = _cached_metadata

(***************************************************************************)
(* Properties of match_song, on a call that has returned.                  *)
(***************************************************************************)
MatchDone == call.op = "match_song" /\ ret.done

\* the combined score of every row against the query
Scores ==
    [i \in DOMAIN call.songs |-> CombinedScore(call.artist, call.title, call.songs[i])]

\* the row whose strings are exactly the query's
Exact(i) == call.songs[i].artist = call.artist /\ call.songs[i].title = call.title

Perfect(sc, i) == FracEq(sc[i], <<100, 1>>)

FirstPerfect(sc) ==
    CHOOSE i \in DOMAIN sc : Perfect(sc, i) /\ \A j \in 1..(i - 1) : ~Perfect(sc, j)

\* the place in the enumeration of the row that was returned
RetIndex == CHOOSE i \in DOMAIN call.songs : call.songs[i].id = ret.val.id

\* lower-casing, character by character
Folded(s) == [k \in DOMAIN s |-> LowerChar(s[k])]

\* C12 as claimed: asked with the artist and title of a row exactly as
\* stored, match_song returns that row, with score 100, whatever else the
\* catalog holds and in whatever order.
C12_ExactReturnsItself ==
    MatchDone
        => \A i \in DOMAIN call.songs :
              Exact(i) => /\ ret.val.id = call.songs[i].id
                          /\ FracEq(ret.val.score, <<100, 1>>)

\* C12 as amended: asked with the artist and title of a row exactly as
\* stored, match_song returns with score 100 the first row enumerated
\* whose combined score is 100: the row itself unless a row enumerated
\* before it also scores 100.
C12_ExactReturnsFirstPerfect ==
    MatchDone
        => LET sc == Scores
           IN \A i \in DOMAIN call.songs :
                 Exact(i) => /\ Perfect(sc, i)
                             /\ FracEq(ret.val.score, <<100, 1>>)
                             /\ ret.val.id = call.songs[FirstPerfect(sc)].id
                             /\ (\A j \in 1..(i - 1) : ~Perfect(sc, j))
                                    => ret.val.id = call.songs[i].id

C12_Witness ==
    /\ MatchDone
    /\ \E i \in DOMAIN call.songs :
          /\ i > 1
          /\ Exact(i)
          /\ FracLeq(<<85, 1>>, Scores[1])
          /\ ret.val.id = call.songs[i].id

\* C13: match_song returns None exactly when no row has a combined score
\* of at least 85; a score of exactly 85 is accepted, and an empty catalog
\* gives None.
C13_NoMatchIffBelowThreshold ==
    MatchDone
        => LET sc == Scores
           IN /\ ret.val.id = 0
                   <=> \A i \in DOMAIN call.songs : FracLess(sc[i], <<85, 1>>)
              /\ call.songs = <<>> => ret.val.id = 0

C13_Witness ==
    /\ MatchDone
    /\ ret.val.id # 0
    /\ FracEq(ret.val.score, <<85, 1>>)

\* C14: the row match_song returns has the greatest combined score of the
\* catalog, and of the rows with that score it is the first enumerated.
C14_BestAndEarliest ==
    (MatchDone /\ ret.val.id # 0)
        => LET sc == Scores
               r == RetIndex
           IN /\ FracEq(ret.val.score, sc[r])
              /\ \A j \in DOMAIN call.songs :
                    /\ FracLeq(sc[j], sc[r])
                    /\ FracEq(sc[j], sc[r]) => r <= j

C14_Witness ==
    /\ MatchDone
    /\ LET sc == Scores
       IN \E i, j \in DOMAIN call.songs :
             /\ i < j
             /\ FracEq(sc[i], sc[j])
             /\ ret.val.id = call.songs[i].id

\* C15: a query whose artist is a row's artist up to case, and whose title
\* contains the row's title up to case, gives that row a combined score
\* of 100, and match_song returns a row with a score of at least 85.
C15_CaseAndSubstring ==
    MatchDone
        => LET sc == Scores
           IN \A i \in DOMAIN call.songs :
                 (/\ Folded(call.artist) = Folded(call.songs[i].artist)
                  /\ Contains(Folded(call.title), Folded(call.songs[i].title)))
                     => /\ Perfect(sc, i)
                        /\ ret.val.id # 0
                        /\ FracLeq(<<85, 1>>, ret.val.score)

C15_Witness ==
    /\ MatchDone
    /\ \E i \in DOMAIN call.songs :
          /\ call.artist # call.songs[i].artist
          /\ Folded(call.artist) = Folded(call.songs[i].artist)
          /\ Len(call.title) > Len(call.songs[i].title)
          /\ Contains(Folded(call.title), Folded(call.songs[i].title))
          /\ ret.val.id = call.songs[i].id

(***************************************************************************)
(* Properties of the upcoming-song notifications.                          *)
(***************************************************************************)
\* the notifications of the running tick sent with is_current = False
UpcomingSends == SelectSeq(fx, LAMBDA e : e.op = "send" /\ ~e.cur)

\* C16: when a transition to the song at position P has run to its end
\* with upcoming notifications enabled, then for every configured offset
\* o with P - o >= 1 whose song at position P - o matches an enabled rule,
\* a notification with is_current = False for that song was sent in the
\* same tick.
C16_UpcomingSentForNewPosition ==
    (/\ pc = "return"
     /\ song_changed
     /\ result.kind = "ok"
     /\ get_notification_settings(notification_settings).notify_upcoming_song)
        => LET offsets == get_notification_settings(notification_settings)
                              .upcoming_notify_positions
               P == SongById(song_match).position
           IN \A k \in DOMAIN offsets :
                 LET upcoming_song == get_song_by_position(P - offsets[k])
                 IN (/\ P - offsets[k] >= 1
                     /\ upcoming_song # 0
                     /\ matches_notification_rules(SongById(upcoming_song),
                                                   notification_rules))
                        => \E i \in DOMAIN UpcomingSends :
                              UpcomingSends[i].song = upcoming_song

\* C17: no notification sent with is_current = False is for a song at a
\* position greater than or equal to that of the song the tick has just
\* transitioned to.
C17_UpcomingBelowNewPosition ==
    (pc = "return" /\ song_changed)
        => \A i \in DOMAIN UpcomingSends :
              SongById(UpcomingSends[i].song).position
                  < SongById(song_match).position

CurrentSends == SelectSeq(fx, LAMBDA e : e.op = "send" /\ e.cur)

\* C20: the step that evaluates the current song sends nothing when the
\* settings it reads have notify_current_song off, and the step that
\* evaluates the upcoming songs sends nothing when the settings it reads
\* have notify_upcoming_song off, whatever the rules match; the settings
\* are those stored when the step runs, so a change made before it counts.
\* No other step sends.
C20_TypeGate ==
    [][ /\ (/\ pc = "notify_current"
             /\ ~SettingsRaise(notification_settings)
             /\ ~get_notification_settings(notification_settings).notify_current_song)
            => CurrentSends' = <<>>
        /\ (/\ pc = "notify_upcoming"
             /\ ~SettingsRaise(notification_settings)
             /\ ~get_notification_settings(notification_settings).notify_upcoming_song)
            => UpcomingSends' = <<>>
        /\ pc # "notify_current" => CurrentSends' \in {CurrentSends, <<>>}
        /\ pc # "notify_upcoming" => UpcomingSends' \in {UpcomingSends, <<>>} ]_vars

\* the current song matches a rule and an earlier transition was notified
\* under the initial settings, yet nothing was sent after the change
C20_Witness ==
    /\ pc = "notify_upcoming"
    /\ prev.state # None
    /\ matches_notification_rules(SongById(song_match), notification_rules)
    /\ ~get_notification_settings(notification_settings).notify_current_song
    /\ CurrentSends = <<>>

UpcomingDone == call.op = "upcoming_songs" /\ ret.done

\* C18: the list returned while a song at position P is the current song
\* has at most n entries, all rows of the table with position below P, in
\* strictly descending position order, and a row below P that is not in
\* the list lies below the last of n returned entries.
C18_UpcomingSongs ==
    (UpcomingDone /\ call.data.valid /\ call.data.current_song # 0)
        => LET P == RowById(call.songs, call.data.current_song).position
               out == ret.val
           IN /\ Len(out) <= call.count
              /\ \A i \in DOMAIN out :
                    /\ \E k \in DOMAIN call.songs : call.songs[k] = out[i]
                    /\ out[i].position < P
              /\ \A i \in DOMAIN out : i > 1 => out[i].position < out[i-1].position
              /\ \A k \in DOMAIN call.songs :
                    (/\ call.songs[k].position < P
                     /\ \A i \in DOMAIN out : out[i] # call.songs[k])
                        => /\ Len(out) = call.count
                           /\ call.songs[k].position < out[Len(out)].position

\* a full list, a row below it left out, a row above the current song,
\* and a table that is not stored in position order
C18_Witness ==
    /\ UpcomingDone /\ call.data.valid /\ call.data.current_song # 0
    /\ Len(ret.val) = call.count
    /\ \E k \in DOMAIN call.songs :
          /\ call.songs[k].position
                < RowById(call.songs, call.data.current_song).position
          /\ \A i \in DOMAIN ret.val : ret.val[i] # call.songs[k]
    /\ call.songs[1].position < call.songs[2].position
    /\ \E k \in DOMAIN call.songs :
          call.songs[k].position
              > RowById(call.songs, call.data.current_song).position

HistoryDone == call.op = "get_position_history" /\ ret.done

\* the edition whose positions became the songs table
CurrentEdition == SortedReverse(EffectiveYears(call.import_years))[1]

\* C19: the position history of a song never contains the most recent
\* imported year, whatever years were imported; it is in descending year
\* order and has at most 5 elements.
C19_HistoryExcludesCurrentEdition ==
    HistoryDone
        => /\ \A i \in DOMAIN ret.val : ret.val[i].year # CurrentEdition
           /\ \A i \in DOMAIN ret.val : i > 1 => ret.val[i].year < ret.val[i-1].year
           /\ Len(ret.val) <= HistoryLimit

RulesDone == call.op = "matches_notification_rules" /\ ret.done

\* p occurs in s as a run of consecutive characters
IsSubstring(p, s) ==
    \E k \in 0..(Len(s) - Len(p)) : \A i \in 1..Len(p) : s[k + i] = p[i]

\* the rule lets the song pass
RulePasses(r, song) ==
    /\ r.enabled
    /\ \/ r.rule_type = "artist"
          /\ IsSubstring(Folded(r.match_pattern), Folded(song.artist))
       \/ r.rule_type = "title"
          /\ IsSubstring(Folded(r.match_pattern), Folded(song.title))

\* C21: a song passes the rule gate exactly when some enabled artist rule's
\* lower-cased pattern occurs in its lower-cased artist or some enabled
\* title rule's lower-cased pattern occurs in its lower-cased title;
\* disabled and position_range rules never let it pass, and without
\* enabled rules nothing passes.
C21_RuleGate ==
    RulesDone
        => (ret.val <=> \E i \in DOMAIN call.rules : RulePasses(call.rules[i], call.song))

\* a song passes on the second rule, in another case than stored, after a
\* position_range rule whose pattern occurs in its title
C21_Witness ==
    /\ RulesDone
    /\ ret.val
    /\ Len(call.rules) = 2
    /\ call.rules[1].rule_type = "position_range"
    /\ IsSubstring(Folded(call.rules[1].match_pattern), Folded(call.song.title))
    /\ call.rules[2].rule_type = "title"
    /\ ~IsSubstring(call.rules[2].match_pattern, call.song.title)

\* the targets a configuration can name
KnownTargets == AllTargets

\* C22: in one evaluation of the current song each configured target gets
\* at most one notification, however many rules match.
C22_OneSendPerTarget ==
    \A t \in KnownTargets :
        Cardinality({i \in DOMAIN CurrentSends : CurrentSends[i].target = t}) <= 1

\* C28: every offset stored through the settings form is a positive
\* integer, so that no notification with is_current = False is sent for
\* the position the offsets are counted from, or a higher one.
C28_StoredOffsetsPositive ==
    /\ (notification_settings # None
          /\ notification_settings[1].upcoming_notify_positions.kind = "json")
          => \A i \in DOMAIN notification_settings[1].upcoming_notify_positions.val :
                notification_settings[1].upcoming_notify_positions.val[i] >= 1
    /\ (pc = "return" /\ data.valid /\ data.current_song # 0)
          => \A i \in DOMAIN UpcomingSends :
                SongById(UpcomingSends[i].song).position
                    < SongById(data.current_song).position

\* the targets the stored settings name, in order
ConfiguredTargets == get_notification_settings(notification_settings).notification_targets

\* sends go round the configured targets in their order
InTargetOrder(sends) ==
    /\ Len(sends) % Len(ConfiguredTargets) = 0
    /\ \A i \in DOMAIN sends :
          sends[i].target = ConfiguredTargets[((i - 1) % Len(ConfiguredTargets)) + 1]

\* C23: a dispatch attempts a send to every configured target, in order;
\* a send that fails does not keep the later targets from being tried and
\* does not make the step that dispatched raise.
C23_EveryTargetTried ==
    /\ CurrentSends # <<>>
          => /\ InTargetOrder(CurrentSends)
             /\ Len(CurrentSends) = Len(ConfiguredTargets)
             /\ ~(result.kind = "failed" /\ result.error = "notify_current")
    /\ UpcomingSends # <<>>
          => /\ InTargetOrder(UpcomingSends)
             /\ result.kind # "failed"

\* the send to the first target failed, the second target was still sent
\* to, and the tick returned its result
C23_Witness ==
    /\ pc = "return"
    /\ result.kind = "ok"
    /\ Len(CurrentSends) = 2
    /\ ~CurrentSends[1].ok
    /\ CurrentSends[2].ok

AcquirePcs == {"stage1", "stage2", "stage3", "match"}
EffectPcs == {"cover_art", "playlist_state", "notify_current", "notify_upcoming"}

C25_PollingContinues ==
    \A kind \in {"ok", "soft", "failed"} :
        (pc = "return" /\ result.kind = kind) ~> (pc \in AcquirePcs)

\* a tick is under way after a tick that failed in a side-effect step of
\* a transition
C25_Witness ==
    /\ pc \in AcquirePcs
    /\ ~last_update_success
    /\ _last_song_id # 0
    /\ playlist_state = None

\* C26: the playback-state table never holds more than one row, and when
\* a transition to song s at position p has completed, that row holds s,
\* p and the observation of the tick, the row before it being gone.
C26_SingletonPlaybackState ==
    /\ Len(playlist_state) <= 1
    /\ (pc = "return" /\ result.kind = "ok" /\ song_changed)
          => playlist_state =
                 << [current_position |-> SongById(song_match).position,
                     current_song_id |-> song_match,
                     detected_at |-> now,
                     npo_metadata |-> npo_metadata[1]] >>

\* a transition completed that replaced the row of another song
C26_Witness ==
    /\ pc = "return" /\ result.kind = "ok" /\ song_changed
    /\ prev.state # None
    /\ prev.state[1].current_song_id # song_match
    /\ prev.state[1].npo_metadata # npo_metadata[1]

SetupDone == call.op = "async_setup_entry" /\ ret.done

\* C27: the interval the coordinator is created with lies in 15..120
\* seconds, whatever was submitted in the form, left out of it, or stored
\* in the entry.
C27_IntervalInRange ==
    /\ SetupDone => ret.val.update_interval \in 15..120
    /\ (call.op = "async_step_user" /\ ret.done /\ ret.val.type = "create_entry")
          => /\ ret.val.data[1].update_interval # None
             /\ ret.val.data[1].update_interval[1] \in 15..120

\* a coordinator runs with the floor, from a form that held a fraction
\* above it
C27_Witness ==
    /\ SetupDone
    /\ ret.val.update_interval = 15
    /\ call.update_interval.kind = "number"
    /\ call.update_interval.tenths > 150

\* the defaults the specification documents
DocumentedDefaults ==
    [notification_targets |-> <<"persistent_notification">>,
     notify_current_song |-> TRUE,
     notify_upcoming_song |-> FALSE,
     upcoming_notify_positions |-> <<1, 2, 3>>]

\* the settings a notification step of this tick worked with are the
\* documented defaults: what it sent went to the default target only
SentAsDefault ==
    /\ \A i \in DOMAIN CurrentSends : CurrentSends[i].target = "persistent_notification"
    /\ UpcomingSends = <<>>

\* C29: without a settings row the documented defaults are used, and with
\* a row whose target or offset list cannot be parsed the tick goes on
\* with those defaults instead of failing.
C29_DefaultsWhenAbsentOrMalformed ==
    /\ notification_settings = None
          => get_notification_settings(notification_settings) = DocumentedDefaults
    /\ (pc = "return" /\ song_changed
          /\ (notification_settings = None \/ SettingsRaise(notification_settings)))
          => /\ result.kind = "ok"
             /\ SentAsDefault

\* the entry has cover art cached less than 24 hours ago
FreshCover(row) ==
    /\ row.cover_art_url # ""
    /\ row.cover_art_cached_at # None
    /\ now - row.cover_art_cached_at[1] < 24 * 3600

\* C30: in the cover-art step of a transition the lookup happens exactly
\* when the observation has no image URL and the entry has no cover art
\* cached less than 24 hours ago; an image URL of the observation is
\* stored on the entry; a lookup that finds nothing leaves the entry's
\* cover-art fields as they were.
C30_CoverArtLookup ==
    [][ pc = "cover_art"
          => LET url == npo_metadata[1].cover_art_url
                 looked == \E i \in DOMAIN fx' : fx'[i].op = "cover_lookup"
                 wrote == \E i \in DOMAIN fx' : fx'[i].op = "cover_write"
             IN /\ looked <=> (url = "" /\ ~FreshCover(cover[song_match]))
                /\ url # "" => cover'[song_match].cover_art_url = url
                /\ (looked /\ ~wrote) => cover' = cover ]_vars

\* the catalog columns of a songs row
CatalogColumns(row) ==
    [position |-> row.position, artist |-> row.artist, title |-> row.title,
     year |-> row.year]

\* C31: no step of a tick changes the position, artist, title or year of a
\* catalog entry, a position-history row, a notification rule or the
\* notification settings; a songs row changes only in the cover-art step
\* of a transition, and then it is the row of the song the tick
\* transitioned to; everything else a tick writes is the PlaybackState row.
C31_TickWritesOnlyCoverAndState ==
    [][ /\ notification_settings' = notification_settings
        /\ notification_rules' = notification_rules
        /\ position_history' = position_history
        /\ DOMAIN cover' = DOMAIN cover
        /\ \A id \in DOMAIN cover :
              /\ CatalogColumns(cover'[id]) = CatalogColumns(cover[id])
              /\ cover'[id] # cover[id] =>
                    /\ pc = "cover_art"
                    /\ song_changed
                    /\ id = song_match
                    /\ id = _last_song_id
                    /\ id # prev.id ]_vars

\* C31 witness: a transition has written cover art over an older URL and
\* the PlaybackState row, and has returned its result
C31_Witness ==
    /\ pc = "return"
    /\ result.kind = "ok"
    /\ result.song_changed
    /\ Count("cover_write") = 1
    /\ Count("state_write") = 1
    /\ cover[result.current_song].cover_art_url \notin {"", OldCoverUrl}
    /\ cover[result.current_song].musicbrainz_id = ""
    /\ playlist_state # prev.state
    /\ playlist_state[1].current_song_id = result.current_song

\* the scan as specified: the best candidate so far is replaced by a
\* strictly greater score, whatever the threshold; best is [id, score]
RECURSIVE TrackBest(_, _, _, _)
TrackBest(rows, artist, title, best) ==
    IF rows = <<>> THEN best
    ELSE LET combined == CombinedScore(artist, title, Head(rows))
         IN TrackBest(Tail(rows), artist, title,
                      IF FracLess(best.score, combined)
                      THEN [id |-> Head(rows).id, score |-> combined]
                      ELSE best)

\* the specified algorithm: the threshold is applied once, after the scan
SpecifiedMatch(rows, artist, title) ==
    LET best == TrackBest(rows, artist, title, [id |-> 0, score |-> <<0, 1>>])
    IN IF FracLeq(<<FUZZY_MATCH_THRESHOLD, 1>>, best.score) THEN best.id ELSE 0

\* C32: the scan of match_song (a candidate replaces the best when its score
\* is strictly greater than the best so far and at least the threshold)
\* returns the same entry, or None, as the specified algorithm (strictly
\* greater best over the whole catalog, threshold applied once at the end),
\* for every catalog, enumeration order and query.
C32_ScanRefinesSpecified ==
    MatchDone => ret.val.id = SpecifiedMatch(call.songs, call.artist, call.title)

\* C32 witness: the row returned comes after a row that scores above 0 and
\* below the threshold (the two scans hold a different best there) and
\* before a row of the same score as its own
C32_Witness ==
    /\ MatchDone
    /\ ret.val.id # 0
    /\ LET sc == Scores
       IN /\ \E j \in 1..(RetIndex - 1) :
                /\ FracLess(<<0, 1>>, sc[j])
                /\ FracLess(sc[j], <<FUZZY_MATCH_THRESHOLD, 1>>)
          /\ \E k \in (RetIndex + 1)..Len(call.songs) : FracEq(sc[k], sc[RetIndex])

\* C33: once a tick has settled, whatever its outcome, the song id in the
\* PlaybackState row equals the tracked song id (_last_song_id), or there
\* is no row and no tracked song.
C33_StateRowAgreesWithTracked ==
    pc \in {"return", "idle"}
        => IF playlist_state = None THEN _last_song_id = 0
           ELSE playlist_state[1].current_song_id = _last_song_id

StagePcs == {"stage1", "stage2", "stage3"}

\* C34: a stage that fails leaves the cached observation and its timestamp
\* as they were, and when the third has failed the call returns NotFound;
\* whenever a call has returned an observation, it is the cached one and
\* was cached less than 30 seconds ago, so that an observation of 30
\* seconds or older is never returned, whatever the sources do.
C34_FailedFetchKeepsCache ==
    [][ /\ (pc \in StagePcs /\ pc' \in StagePcs \cup {"return"})
            => /\ UNCHANGED clientVars
               /\ npo_metadata' = None
        /\ (pc \in StagePcs /\ pc' = "return")
            => /\ Len(contacted') = 3
               /\ result' = SoftResult("No metadata available")
        /\ npo_metadata' # None
            => /\ npo_metadata' = _cached_metadata'
               /\ _last_fetch' # None
               /\ now' - _last_fetch'[1] < _cache_duration ]_vars

\* C34 witness: an observation cached 30 seconds ago or earlier is still
\* in the cache when all three stages have failed and the call has
\* returned NotFound
C34_Witness ==
    /\ pc = "return"
    /\ Len(contacted) = 3
    /\ AllFailed(contacted)
    /\ result = SoftResult("No metadata available")
    /\ _cached_metadata # None
    /\ _last_fetch # None
    /\ now - _last_fetch[1] >= _cache_duration

\* the list computed from the position of the latest transition
ListOfLatest ==
    FormatUpcoming(get_upcoming_songs(Songs, SongById(_last_song_id).position,
                                      _upcoming_count))

\* C35: between ticks, once every refresh task that was created has ended,
\* the list the upcoming-songs sensor shows is the list computed from the
\* position of the latest transition, however the tasks and the ticks
\* interleaved.
C35_UpcomingListIsLatest ==
    (pc = "idle" /\ refresh_tasks = <<>> /\ _last_song_id # 0)
        => _upcoming_songs = ListOfLatest

\* what get_notification_settings gave, or would have given, before the call
SettingsBefore == get_notification_settings(prev.state)

\* the value read back for an argument: the value passed, or the previous
\* one (the default when there was no row) when none was passed
Expected(arg, before) == IF arg = None THEN before ELSE arg[1]

\* C36: update_notification_settings followed by get_notification_settings
\* reads back every value passed unchanged, empty lists included, whether
\* or not a settings row existed, and for every value not passed the
\* previous one, or the default when there was no row.
C36_SettingsRoundTrip ==
    (call.op = "get_notification_settings" /\ ret.done)
        => /\ ret.val.notification_targets =
                  Expected(call.notification_targets, SettingsBefore.notification_targets)
           /\ ret.val.notify_current_song =
                  Expected(call.notify_current_song, SettingsBefore.notify_current_song)
           /\ ret.val.notify_upcoming_song =
                  Expected(call.notify_upcoming_song, SettingsBefore.notify_upcoming_song)
           /\ ret.val.upcoming_notify_positions =
                  Expected(call.upcoming_notify_positions,
                           SettingsBefore.upcoming_notify_positions)

TracksDone == call.op = "import_tracks" /\ ret.done

\* the files that hold a row of this track
FilesWith(id) ==
    { f \in DOMAIN call.files : \E k \in DOMAIN call.files[f] : call.files[f][k].track_id = id }

\* C37: when a track id appears in more than one track file, the data kept
\* for it is that of a row of the newest of these files, the one latest
\* in TRACK_FILES.
C37_NewerFileWins ==
    TracksDone
        => \A id \in DOMAIN ret.val :
              Cardinality(FilesWith(id)) > 1
                  => LET newest == CHOOSE f \in FilesWith(id) : \A g \in FilesWith(id) : g <= f
                     IN \E k \in DOMAIN call.files[newest] :
                           /\ call.files[newest][k].track_id = id
                           /\ call.files[newest][k].title = ret.val[id].title
                           /\ call.files[newest][k].artist = ret.val[id].artist
                           /\ call.files[newest][k].year = ret.val[id].year
====
